---- MODULE Spec2Model ----
(***************************************************************************)
(* SEAP loan evaluation: the evaluation pipeline of ValidationService and  *)
(* the credit-bureau client BCRAService.                                   *)
(*                                                                         *)
(* The repository holds two revisions of each service:                     *)
(*   ValidationService  "lib" = src/lib/validation-service.ts              *)
(*                      "p1"  = src/unnamed/part_001, lines 1-492          *)
(*   BCRAService        "A"   = src/unnamed/part_001, lines 528-777        *)
(*                      "B"   = src/unnamed/part_001, lines 813-1139       *)
(* Both revisions of a service export the same names, so a definition that *)
(* models one revision carries its suffix (_lib, _p1, _A, _B).  The        *)
(* variables vs and bcra say which revision a behaviour runs.              *)
(*                                                                         *)
(* Identifiers (dni, cuit) are sequences of characters: 0..9 are the       *)
(* digits.  Accents of message strings are dropped.                        *)
(***************************************************************************)
EXTENDS Integers, Sequences, FiniteSets, TLC

VARIABLES
    vs,        \* revision of ValidationService that runs: "lib" or "p1"
    bcra,      \* revision of BCRAService that runs: "A" or "B"
    envToken,  \* TRUE iff the environment configures a BCRA token
    pc,        \* position of evaluateCliente
    cliente,   \* the ClienteData evaluateCliente was called with
    protecapResult, \* ValidationResult of validateProtecap
    bcraResult,     \* ValidationResult of validateBCRA
    bancoResult,    \* ValidationResult of validateBanco
    cuit,      \* identifier validateBCRA hands to consultarDeudas
    attempt,   \* loop variable of consultarDeudas
    lastError, \* lastError of consultarDeudas (message of the Error)
    consultaError, \* message of the Error consultarDeudas threw ("" if none)
    requests,  \* number of HTTP requests issued by makeRequest
    inFlight,  \* number of HTTP requests in flight
    waits,     \* the backoff delays (ms) consultarDeudas has waited, in order
    sueldoValidation, \* ValidationResult of validateSueldoMinimo (revision lib)
    result,    \* the EvaluationResult evaluateCliente resolved with
    thrown,    \* the exception evaluateCliente rejected with ("" if none)
    call,      \* the last direct call of a static method: [fn, arg, out]
    deadlinePassed, \* TRUE iff TIMEOUT_MS have passed since the attempt started
    cancelled, \* TRUE iff the caller has asked to cancel the evaluation
    evals,     \* the locals of each of two interleaved calls of evaluateCliente
    storage,   \* the item "seap_evaluations" of localStorage
    user,      \* the state user of AuthProvider
    pending    \* the calls of login that await their timer

vars == <<vs, bcra, envToken, pc, cliente, protecapResult, bcraResult, bancoResult,
          cuit, attempt, lastError, consultaError, requests, inFlight, waits,
          sueldoValidation, result, thrown, call, deadlinePassed, cancelled,
          evals, storage, user, pending>>

-----------------------------------------------------------------------------
(* Bounds of the model *)

\* the number of saveEvaluation calls between two clearHistory calls
MaxSaved == 102

\* the number of login calls that await their timer at the same time
MaxPending == 2

\* longest list of deudas in a live API response
MaxDeudas == 1

-----------------------------------------------------------------------------
(* Small helpers *)

Min(a, b) == IF a <= b THEN a ELSE b

RECURSIVE SumSeq(_)
SumSeq(s) == IF s = <<>> THEN 0 ELSE Head(s) + SumSeq(Tail(s))

RECURSIVE SeqsUpTo(_, _)
SeqsUpTo(S, n) ==
    IF n = 0 THEN {<<>>}
    ELSE LET shorter == SeqsUpTo(S, n - 1)
         IN  shorter \cup {Append(s, x) : s \in shorter, x \in S}

IsDigit(ch) == ch \in 0..9

AllDigits(s) == \A i \in 1..Len(s) : IsDigit(s[i])

\* JavaScript's s.slice(-n)
SliceLast(s, n) == IF Len(s) <= n THEN s ELSE SubSeq(s, Len(s) - n + 1, Len(s))

\* parseInt of a string of digits
RECURSIVE ParseInt(_)
ParseInt(s) == IF s = <<>> THEN 0 ELSE 10 * ParseInt(SubSeq(s, 1, Len(s) - 1)) + s[Len(s)]

\* String.prototype.padStart(n, "0")
RECURSIVE PadStart(_, _)
PadStart(s, n) == IF Len(s) >= n THEN s ELSE PadStart(<<0>> \o s, n)

\* the JavaScript object {}
EmptyObject == [k \in {} |-> TRUE]

\* a JavaScript object has the property k
Has(obj, k) == k \in DOMAIN obj

-----------------------------------------------------------------------------
(* Reference data *)

clientesMorosos ==
    << [dni |-> <<1,2,3,4,5,6,7,8>>, tieneCredito |-> TRUE,  montoDeuda |-> 50000],
       [dni |-> <<8,7,6,5,4,3,2,1>>, tieneCredito |-> FALSE, montoDeuda |-> 0],
       [dni |-> <<1,1,2,2,3,3,4,4>>, tieneCredito |-> TRUE,  montoDeuda |-> 25000] >>

bancosHabilitados ==
    << [id |-> "nacion", nombre |-> "Banco Nacion", restricciones |-> FALSE, situacion |-> 1, requiereCuenta |-> FALSE],
       [id |-> "macro", nombre |-> "Banco Macro", restricciones |-> TRUE, situacion |-> 2, requiereCuenta |-> TRUE],
       [id |-> "santander", nombre |-> "Banco Santander", restricciones |-> FALSE, situacion |-> 2, requiereCuenta |-> FALSE],
       [id |-> "galicia", nombre |-> "Banco Galicia", restricciones |-> FALSE, situacion |-> 2, requiereCuenta |-> FALSE],
       [id |-> "bbva", nombre |-> "BBVA", restricciones |-> TRUE, situacion |-> 3, requiereCuenta |-> FALSE],
       [id |-> "icbc", nombre |-> "ICBC", restricciones |-> FALSE, situacion |-> 1, requiereCuenta |-> FALSE],
       [id |-> "supervielle", nombre |-> "Banco Supervielle", restricciones |-> FALSE, situacion |-> 2, requiereCuenta |-> FALSE] >>

bancosData ==
    << [id |-> "nacion", nombre |-> "Banco Nacion", restricciones |-> FALSE, situacion |-> 1, requiereCuenta |-> FALSE],
       [id |-> "macro", nombre |-> "Banco Macro", restricciones |-> TRUE, situacion |-> 2, requiereCuenta |-> TRUE],
       [id |-> "santander", nombre |-> "Banco Santander", restricciones |-> FALSE, situacion |-> 1, requiereCuenta |-> FALSE],
       [id |-> "galicia", nombre |-> "Banco Galicia", restricciones |-> FALSE, situacion |-> 2, requiereCuenta |-> FALSE],
       [id |-> "bbva", nombre |-> "BBVA", restricciones |-> TRUE, situacion |-> 3, requiereCuenta |-> FALSE],
       [id |-> "icbc", nombre |-> "ICBC", restricciones |-> FALSE, situacion |-> 1, requiereCuenta |-> FALSE] >>

\* Array.prototype.find: the first element satisfying the test, as a set of
\* at most one element (empty when find returns undefined)
FindMoroso(dni) ==
    LET hits == {i \in 1..Len(clientesMorosos) : clientesMorosos[i].dni = dni}
    IN  IF hits = {} THEN {}
        ELSE {clientesMorosos[CHOOSE i \in hits : \A j \in hits : i <= j]}

FindBanco(tabla, id) ==
    LET hits == {i \in 1..Len(tabla) : tabla[i].id = id}
    IN  IF hits = {} THEN {}
        ELSE {tabla[CHOOSE i \in hits : \A j \in hits : i <= j]}

-----------------------------------------------------------------------------
(* Identifier service (BCRAService.validateCuit, dniToCuit) *)

multipliers == <<5, 4, 3, 2, 7, 6, 5, 4, 3, 2>>

\* the check digit both revisions compute from the first 10 digits
CheckDigit(base) ==
    LET sum == SumSeq([i \in 1..10 |-> base[i] * multipliers[i]])
        remainder == sum % 11
    IN  IF remainder < 2 THEN remainder ELSE 11 - remainder

\* requires an 11-digit argument
validateCuitChecksum(c) == CheckDigit(c) = c[11]

\* cuit.replace(/[-\s]/g, "") : 10 stands for "-", 11 for a blank
CleanCuit(c) == SelectSeq(c, LAMBDA ch : ch \notin {10, 11})

\* dni.replace(/\D/g, "")
CleanDni(d) == SelectSeq(d, IsDigit)

validateCuit_A(c) ==
    LET cleanCuit == CleanCuit(c)
    IN  IF ~(AllDigits(cleanCuit) /\ Len(cleanCuit) \in 7..11) THEN FALSE
        ELSE IF Len(cleanCuit) <= 8 THEN TRUE
        ELSE IF Len(cleanCuit) < 11 THEN FALSE  \* cuit[10] is undefined: NaN
        ELSE validateCuitChecksum(cleanCuit)

validateCuit_B(c) ==
    IF Len(c) # 11 THEN FALSE
    ELSE IF ~AllDigits(c) THEN FALSE
    ELSE validateCuitChecksum(c)

\* dniToCuit throws exactly when DniToCuitThrows; otherwise its value is dniToCuit
dniToCuitThrows_A(d) == Len(CleanDni(d)) < 7 \/ Len(CleanDni(d)) > 8

dniToCuit_A(d) ==
    LET baseCuit == <<2, 0>> \o PadStart(CleanDni(d), 8)
    IN  Append(baseCuit, CheckDigit(baseCuit))

dniToCuitThrows_B(d) == Len(d) # 8

\* parseInt of a character that is no digit is NaN, and so is the check
\* digit: 12 stands for "N", 13 for "a"
dniToCuit_B(d) ==
    LET baseCuit == <<2, 0>> \o d
    IN  IF AllDigits(d) THEN Append(baseCuit, CheckDigit(baseCuit))
        ELSE baseCuit \o <<12, 13, 12>>

validateCuit(c) == IF bcra = "A" THEN validateCuit_A(c) ELSE validateCuit_B(c)
dniToCuitThrows(d) == IF bcra = "A" THEN dniToCuitThrows_A(d) ELSE dniToCuitThrows_B(d)
dniToCuit(d) == IF bcra = "A" THEN dniToCuit_A(d) ELSE dniToCuit_B(d)

-----------------------------------------------------------------------------
(* Credit-bureau client (BCRAService) *)

\* mutant: the loop allows one attempt more
MAX_RETRIES_Four == 3 + 1

MAX_RETRIES == 3

\* getAuthToken: revision A returns null whatever the environment holds,
\* revision B returns the environment's token (null when there is none)
getAuthToken_A == FALSE

getAuthToken_B == envToken

getAuthToken == IF bcra = "A" THEN getAuthToken_A ELSE getAuthToken_B

\* consultarDeudas without a token: the message of the Error it throws
\* ("" when it throws nothing and returns generateMockResponse(cuit))
consultarDeudasNoToken_A == "TOKEN_NOT_CONFIGURED"

consultarDeudasNoToken_B == ""

consultarDeudasNoToken ==
    IF bcra = "A" THEN consultarDeudasNoToken_A ELSE consultarDeudasNoToken_B

\* number of deudas of the list with the given situacion
CountSit(deudas, k) == Cardinality({i \in 1..Len(deudas) : deudas[i].situacion = k})

\* mutant: the switch has a default that counts the record as situacion 5
ContarDeuda_Default(resumen, deuda) ==
    LET contado ==
            IF deuda.situacion = 1 THEN [resumen EXCEPT !.situacion1 = @ + 1]
            ELSE IF deuda.situacion = 2 THEN [resumen EXCEPT !.situacion2 = @ + 1]
            ELSE IF deuda.situacion = 3 THEN [resumen EXCEPT !.situacion3 = @ + 1]
            ELSE IF deuda.situacion = 4 THEN [resumen EXCEPT !.situacion4 = @ + 1]
            ELSE [resumen EXCEPT !.situacion5 = @ + 1]
    IN  [contado EXCEPT !.montoTotal = @ + (IF Has(deuda, "monto") THEN deuda.monto ELSE 0)]

\* the body of deudas.forEach: switch (deuda.situacion) without a default,
\* then resumen.montoTotal += deuda.monto || 0
ContarDeuda(resumen, deuda) ==
    LET contado ==
            IF deuda.situacion = 1 THEN [resumen EXCEPT !.situacion1 = @ + 1]
            ELSE IF deuda.situacion = 2 THEN [resumen EXCEPT !.situacion2 = @ + 1]
            ELSE IF deuda.situacion = 3 THEN [resumen EXCEPT !.situacion3 = @ + 1]
            ELSE IF deuda.situacion = 4 THEN [resumen EXCEPT !.situacion4 = @ + 1]
            ELSE IF deuda.situacion = 5 THEN [resumen EXCEPT !.situacion5 = @ + 1]
            ELSE resumen
    IN  [contado EXCEPT !.montoTotal = @ + (IF Has(deuda, "monto") THEN deuda.monto ELSE 0)]

\* deudas.forEach
RECURSIVE ForEachDeuda(_, _)
ForEachDeuda(resumen, deudas) ==
    IF deudas = <<>> THEN resumen
    ELSE ForEachDeuda(ContarDeuda(resumen, Head(deudas)), Tail(deudas))

\* processResponse (the same in both revisions): apiResponse.deudas || []
processResponse(apiResponse, c) ==
    LET deudas == IF Has(apiResponse, "deudas") THEN apiResponse.deudas ELSE <<>>
        resumen == ForEachDeuda([situacion1 |-> 0, situacion2 |-> 0, situacion3 |-> 0,
                                 situacion4 |-> 0, situacion5 |-> 0,
                                 totalEntidades |-> Len(deudas), montoTotal |-> 0],
                                deudas)
    IN  [cuit |-> c,
         deudas |-> deudas,
         resumen |-> resumen,
         inhabilitado |-> resumen.situacion5 > 0]

\* the favourable branch of generateMockResponse (the same in both revisions)
MockFavorable(c) ==
    [cuit |-> c,
     deudas |-> << [situacion |-> 1, monto |-> 0], [situacion |-> 2, monto |-> 15000] >>,
     resumen |-> [situacion1 |-> 1, situacion2 |-> 1, situacion3 |-> 0, situacion4 |-> 0,
                  situacion5 |-> 0, totalEntidades |-> 2, montoTotal |-> 15000],
     inhabilitado |-> FALSE]

\* Revision A draws every number from Math.random().  A draw is the record
\*   [favorable, totalEntidades, sit, monto, situacion5, montoTotal, inhabilitado]
\* of the values the calls of Math.random() decide.
MockDraws_A ==
    {[favorable |-> TRUE, totalEntidades |-> 2, sit |-> 3, monto |-> 0,
      situacion5 |-> 0, montoTotal |-> 0, inhabilitado |-> FALSE]}
    \cup [favorable : {FALSE}, totalEntidades : 2..5, sit : {3}, monto : {30000},
          situacion5 : {0, 1}, montoTotal : {50000, 250000}, inhabilitado : BOOLEAN]
    \cup {[favorable |-> FALSE, totalEntidades |-> 5, sit |-> 4, monto |-> 30000,
           situacion5 |-> 0, montoTotal |-> 50000, inhabilitado |-> FALSE]}

generateMockResponse_A(c, draw) ==
    IF draw.favorable THEN MockFavorable(c)
    ELSE LET totalEntidades == draw.totalEntidades
             problematicas == (totalEntidades * 6) \div 10
         IN  [cuit |-> c,
              deudas |-> [i \in 1..totalEntidades |->
                            [situacion |-> IF i - 1 < problematicas THEN draw.sit ELSE 1,
                             monto |-> draw.monto]],
              resumen |-> [situacion1 |-> totalEntidades - problematicas,
                           situacion2 |-> 0,
                           situacion3 |-> (problematicas * 7) \div 10,
                           situacion4 |-> (problematicas * 3) \div 10,
                           situacion5 |-> draw.situacion5,
                           totalEntidades |-> totalEntidades,
                           montoTotal |-> draw.montoTotal],
              inhabilitado |-> draw.inhabilitado]

\* Revision B seeds one number from the last four digits of the cuit:
\* random = ((seed * 9301 + 49297) % 233280) / 233280, kept as the numerator
MockModulus == 233280

MockRandom(c) == (ParseInt(SliceLast(c, 4)) * 9301 + 49297) % MockModulus

generateMockResponse_B(c) ==
    LET random == MockRandom(c)
    IN  IF random * 10 < 7 * MockModulus THEN MockFavorable(c)
        ELSE LET totalEntidades == ((random * 4) \div MockModulus) + 2
                 problematicas == (totalEntidades * 6) \div 10
             IN  [cuit |-> c,
                  deudas |-> [i \in 1..totalEntidades |->
                                [situacion |-> IF i - 1 < problematicas
                                               THEN (IF random * 2 < MockModulus THEN 3 ELSE 4)
                                               ELSE 1,
                                 \* floor(random * 100000), the fraction reduced
                                 monto |-> (random * 625) \div 1458]],
                  resumen |-> [situacion1 |-> totalEntidades - problematicas,
                               situacion2 |-> 0,
                               situacion3 |-> (problematicas * 7) \div 10,
                               situacion4 |-> (problematicas * 3) \div 10,
                               situacion5 |-> IF random * 10 < MockModulus THEN 1 ELSE 0,
                               totalEntidades |-> totalEntidades,
                               \* floor(random * 500000), the fraction reduced
                               montoTotal |-> (random * 3125) \div 1458],
                  inhabilitado |-> random * 10 < MockModulus]

\* the draws generateMockResponse may make: revision B makes none
MockDraws == IF bcra = "A" THEN MockDraws_A ELSE {CHOOSE d \in MockDraws_A : d.favorable}

generateMockResponse(c, draw) ==
    IF bcra = "A" THEN generateMockResponse_A(c, draw) ELSE generateMockResponse_B(c)

\* the bodies the registry may answer with: { deudas: [...] }, or a body
\* without the deudas property
Deudas ==
    { [situacion |-> 1, monto |-> 0], [situacion |-> 3, monto |-> 150000],
      [situacion |-> 5, monto |-> 60000], [situacion |-> 7, monto |-> 60000] }

\* a body with ten deudas, one of them in situacion 3: 10% problematic
DeudasDiezPorCiento ==
    [i \in 1..10 |-> IF i = 1 THEN [situacion |-> 3, monto |-> 20000]
                     ELSE [situacion |-> 1, monto |-> 0]]

ApiResponses ==
    {[deudas |-> d] : d \in SeqsUpTo(Deudas, MaxDeudas)} \cup {[observaciones |-> <<>>]}
    \cup {[deudas |-> DeudasDiezPorCiento]}

\* what one call of makeRequest throws, by the way the fetch ends:
\*   "abort"   the timer aborted the request (AbortError)   -> Error("TIMEOUT")
\*   "http"    a response that is not ok                    -> Error("HTTP_ERROR_<status>")
\*   "network" fetch rejected with an Error (TypeError)     -> rethrown
\*   "other"   something that is no Error was thrown        -> Error("UNKNOWN_ERROR")
HttpStatuses == {404, 503}

FetchFailures == {[kind |-> "abort"], [kind |-> "network"], [kind |-> "other"]}
                 \cup {[kind |-> "http", status |-> st] : st \in HttpStatuses}

makeRequestError(f) ==
    IF f.kind = "http" THEN "HTTP_ERROR_" \o ToString(f.status)
    ELSE IF f.kind = "abort" THEN "TIMEOUT"
    ELSE IF f.kind = "network" THEN "Failed to fetch"
    ELSE "UNKNOWN_ERROR"

\* Math.pow(2, attempt) * 1000
RECURSIVE Pow2(_)
Pow2(n) == IF n = 0 THEN 1 ELSE 2 * Pow2(n - 1)

\* mutant: the delay grows linearly
BackoffDelay_Linear(att) == att * 1000

BackoffDelay(att) == Pow2(att) * 1000

\* what consultarDeudas throws once the loop is over
RetriesExhaustedError(last) == IF last # "" THEN last ELSE "MAX_RETRIES_EXCEEDED"

-----------------------------------------------------------------------------
(* Rule stages (ValidationService) *)

\* a ValidationResult variable that holds nothing yet
Unset == [unset |-> TRUE, success |-> FALSE, message |-> ""]

\* the literals evaluateCliente puts in detalles for a stage it did not run
NoEvaluado == [success |-> FALSE, message |-> "No evaluado"]

ErrorTecnico == [success |-> FALSE, message |-> "Error tecnico"]

SUELDO_MINIMO == 500000

validateSueldoMinimo(sueldoNeto) ==
    IF sueldoNeto < SUELDO_MINIMO
    THEN [success |-> FALSE,
          message |-> "Sueldo insuficiente. Minimo requerido: $500.000",
          details |-> [sueldoMinimo |-> SUELDO_MINIMO, sueldoActual |-> sueldoNeto]]
    ELSE [success |-> TRUE,
          message |-> "Sueldo cumple requisitos minimos",
          details |-> [sueldoActual |-> sueldoNeto]]

\* mutant: every entry of the registry fails, whatever its tieneCredito
validateProtecap_AnyEntry(dni) ==
    LET found == FindMoroso(dni)
    IN  IF found # {}
        THEN [success |-> FALSE,
              message |-> "Cliente con credito activo en base Protecap",
              details |-> [montoDeuda |-> (CHOOSE c \in found : TRUE).montoDeuda]]
        ELSE [success |-> TRUE,
              message |-> "Cliente sin creditos activos en Protecap",
              details |-> [montoDeuda |-> 0]]

\* the same in both revisions
validateProtecap(dni) ==
    LET found == FindMoroso(dni)
    IN  IF found # {} /\ (CHOOSE c \in found : TRUE).tieneCredito
        THEN [success |-> FALSE,
              message |-> "Cliente con credito activo en base Protecap",
              details |-> [montoDeuda |-> (CHOOSE c \in found : TRUE).montoDeuda]]
        ELSE [success |-> TRUE,
              message |-> "Cliente sin creditos activos en Protecap",
              details |-> [montoDeuda |-> 0]]

\* porcentajeProblematicas = totalEntidades > 0 ? (totalProblematicas / totalEntidades) * 100 : 0
\* kept as the fraction num / den
TotalProblematicas(resumen) == resumen.situacion3 + resumen.situacion4 + resumen.situacion5

PorcentajeProblematicas(resumen) ==
    IF resumen.totalEntidades > 0
    THEN [num |-> TotalProblematicas(resumen) * 100, den |-> resumen.totalEntidades]
    ELSE [num |-> 0, den |-> 1]

\* mutant: the threshold is exclusive
PctGE_Strict(p, k) == p.num > k * p.den

\* porcentajeProblematicas >= k
PctGE(p, k) == p.num >= k * p.den
\* porcentajeProblematicas > k
PctGT(p, k) == p.num > k * p.den

\* Number.prototype.toFixed(1)
ToFixed1(p) ==
    LET tenths == (2 * 10 * p.num + p.den) \div (2 * p.den)
    IN  ToString(tenths \div 10) \o "." \o ToString(tenths % 10)

\* validateBCRA, revision lib: the catch of consultarDeudas for an error other
\* than TOKEN_NOT_CONFIGURED
validateBCRAError_lib(errorMessage) ==
    [success |-> FALSE,
     message |-> "Error tecnico en consulta BCRA - Pendiente revision manual",
     details |-> [error |-> errorMessage, requiresManualReview |-> TRUE]]

\* validateBCRA, revision lib: the outer catch
validateBCRAUnexpected_lib ==
    [success |-> FALSE,
     message |-> "Error tecnico en validacion BCRA",
     details |-> [error |-> "unexpected_error", requiresManualReview |-> TRUE]]

\* validateBCRA, revision lib: the verdict on a BCRAResponse
validateBCRAResponse_lib(bcraResponse) ==
    LET situacion5 == bcraResponse.inhabilitado \/ bcraResponse.resumen.situacion5 > 0
        totalProblematicas == TotalProblematicas(bcraResponse.resumen)
        porcentajeProblematicas == PorcentajeProblematicas(bcraResponse.resumen)
    IN  IF PctGE(porcentajeProblematicas, 40)
        THEN [success |-> FALSE,
              message |-> "Porcentaje alto de situaciones problematicas: "
                          \o ToFixed1(porcentajeProblematicas) \o "%",
              details |-> [bcraData |-> bcraResponse,
                           porcentajeProblematicas |-> porcentajeProblematicas,
                           totalProblematicas |-> totalProblematicas],
              situacion5 |-> situacion5,
              porcentajeProblematicas |-> porcentajeProblematicas]
        ELSE [success |-> TRUE,
              message |-> "Situacion BCRA favorable: " \o ToFixed1(porcentajeProblematicas)
                          \o "% situaciones problematicas",
              details |-> [bcraData |-> bcraResponse,
                           porcentajeProblematicas |-> porcentajeProblematicas,
                           totalEntidades |-> bcraResponse.resumen.totalEntidades],
              situacion5 |-> situacion5,
              porcentajeProblematicas |-> porcentajeProblematicas]

\* "HTTP_ERROR_" is a prefix of the message
IsHttpError(errorMessage) ==
    \E st \in HttpStatuses : errorMessage = "HTTP_ERROR_" \o ToString(st)

\* errorMessage.replace("HTTP_ERROR_", "")
HttpStatusOf(errorMessage) ==
    ToString(CHOOSE st \in HttpStatuses : errorMessage = "HTTP_ERROR_" \o ToString(st))

\* mutant: an HTTP error is reported without requiresManualReview
validateBCRAError_p1_HttpNoReview(errorMessage) ==
    IF errorMessage = "TIMEOUT"
    THEN [success |-> FALSE,
          message |-> "Timeout en consulta BCRA - Pendiente revision manual",
          details |-> [error |-> "timeout", requiresManualReview |-> TRUE]]
    ELSE IF IsHttpError(errorMessage)
    THEN [success |-> FALSE,
          message |-> "Error HTTP " \o HttpStatusOf(errorMessage) \o " en consulta BCRA",
          details |-> [error |-> "http_error", statusCode |-> HttpStatusOf(errorMessage)]]
    ELSE [success |-> FALSE,
          message |-> "Error tecnico en consulta BCRA - Pendiente revision manual",
          details |-> [error |-> "unknown", requiresManualReview |-> TRUE]]

\* validateBCRA, revision p1: the switch on the message of the error that
\* consultarDeudas threw (TOKEN_NOT_CONFIGURED is handled by the caller)
validateBCRAError_p1(errorMessage) ==
    IF errorMessage = "TIMEOUT"
    THEN [success |-> FALSE,
          message |-> "Timeout en consulta BCRA - Pendiente revision manual",
          details |-> [error |-> "timeout", requiresManualReview |-> TRUE]]
    ELSE IF errorMessage = "MAX_RETRIES_EXCEEDED"
    THEN [success |-> FALSE,
          message |-> "Error de conexion con BCRA - Pendiente revision manual",
          details |-> [error |-> "connection_failed", requiresManualReview |-> TRUE]]
    ELSE IF IsHttpError(errorMessage)
    THEN [success |-> FALSE,
          message |-> "Error HTTP " \o HttpStatusOf(errorMessage)
                      \o " en consulta BCRA - Pendiente revision manual",
          details |-> [error |-> "http_error", statusCode |-> HttpStatusOf(errorMessage),
                       requiresManualReview |-> TRUE]]
    ELSE [success |-> FALSE,
          message |-> "Error tecnico en consulta BCRA - Pendiente revision manual",
          details |-> [error |-> "unknown", requiresManualReview |-> TRUE]]

validateBCRAUnexpected_p1 ==
    [success |-> FALSE,
     message |-> "Error tecnico en validacion BCRA - Pendiente revision manual",
     details |-> [error |-> "unexpected_error", requiresManualReview |-> TRUE]]

validateBCRAResponse_p1(bcraResponse) ==
    IF bcraResponse.inhabilitado
    THEN [success |-> FALSE,
          message |-> "Cliente inhabilitado en BCRA (Situacion 5)",
          details |-> [bcraData |-> bcraResponse,
                       situacion5Count |-> bcraResponse.resumen.situacion5]]
    ELSE LET totalProblematicas == TotalProblematicas(bcraResponse.resumen)
             porcentajeProblematicas == PorcentajeProblematicas(bcraResponse.resumen)
         IN  IF PctGE(porcentajeProblematicas, 40)
             THEN [success |-> FALSE,
                   message |-> "Porcentaje alto de situaciones problematicas: "
                               \o ToFixed1(porcentajeProblematicas) \o "%",
                   details |-> [bcraData |-> bcraResponse,
                                porcentajeProblematicas |-> porcentajeProblematicas,
                                totalProblematicas |-> totalProblematicas]]
             ELSE [success |-> TRUE,
                   message |-> "Situacion BCRA favorable: "
                               \o ToFixed1(porcentajeProblematicas)
                               \o "% situaciones problematicas",
                   details |-> [bcraData |-> bcraResponse,
                                porcentajeProblematicas |-> porcentajeProblematicas,
                                totalEntidades |-> bcraResponse.resumen.totalEntidades,
                                montoTotal |-> bcraResponse.resumen.montoTotal]]


validateBCRAUnexpected ==
    IF vs = "lib" THEN validateBCRAUnexpected_lib ELSE validateBCRAUnexpected_p1

validateBCRAResponse(bcraResponse) ==
    IF vs = "lib" THEN validateBCRAResponse_lib(bcraResponse)
    ELSE validateBCRAResponse_p1(bcraResponse)

\* validateBCRA: the catch around consultarDeudas.  TOKEN_NOT_CONFIGURED falls
\* back to BCRAService.generateMockResponse(cuit); every other error returns
\* a failed result.
validateBCRACatch_lib(errorMessage, c, draw) ==
    IF errorMessage = "TOKEN_NOT_CONFIGURED"
    THEN validateBCRAResponse_lib(generateMockResponse(c, draw))
    ELSE validateBCRAError_lib(errorMessage)

\* mutant: TOKEN_NOT_CONFIGURED is treated like every other error
validateBCRACatch_p1_NoFallback(errorMessage, c, draw) ==
    validateBCRAError_p1(errorMessage)

validateBCRACatch_p1(errorMessage, c, draw) ==
    IF errorMessage = "TOKEN_NOT_CONFIGURED"
    THEN validateBCRAResponse_p1(generateMockResponse(c, draw))
    ELSE validateBCRAError_p1(errorMessage)

validateBCRACatch(errorMessage, c, draw) ==
    IF vs = "lib" THEN validateBCRACatch_lib(errorMessage, c, draw)
    ELSE validateBCRACatch_p1(errorMessage, c, draw)

-----------------------------------------------------------------------------
(* Bank stage *)

\* clienteData.numeroCuenta is a record [type, value]: undefined, a string, or
\* (the type annotation is erased at run time) a value that is no string
IsFalsy(x) == x.type = "undefined" \/ (x.type = "string" /\ x.value = "")

\* String.prototype.trim on the strings of the model
Trim(str) == IF str \in {"", " ", "   "} THEN "" ELSE str

\* !numeroCuenta || numeroCuenta.trim() === ""   (throws TypeError: trim is not
\* a function, when numeroCuenta is truthy and no string)
CuentaCheckThrows(x) == ~IsFalsy(x) /\ x.type # "string"

CuentaMissing(x) == IsFalsy(x) \/ Trim(x.value) = ""

BancoOf(tabla, c) == CHOOSE b \in FindBanco(tabla, c.bancoPagador) : TRUE

\* validateBanco throws exactly when validateBancoThrows; otherwise its value
\* is validateBanco.  blocked is the outcome of the test on Math.random().
validateBancoThrows_lib(c) ==
    /\ FindBanco(bancosHabilitados, c.bancoPagador) # {}
    /\ LET banco == BancoOf(bancosHabilitados, c)
       IN  /\ ~(banco.id = "macro" /\ c.tipoEmpleado = "privado")
           /\ ~(banco.restricciones /\ c.sueldoNeto <= 650000)
           /\ ~(banco.situacion >= 4)
           /\ banco.requiereCuenta
           /\ CuentaCheckThrows(c.numeroCuenta)

validateBanco_lib(c, blocked) ==
    IF FindBanco(bancosHabilitados, c.bancoPagador) = {}
    THEN [success |-> FALSE, message |-> "Banco no habilitado", details |-> EmptyObject]
    ELSE LET banco == BancoOf(bancosHabilitados, c)
         IN  IF banco.id = "macro" /\ c.tipoEmpleado = "privado"
             THEN [success |-> FALSE,
                   message |-> "Banco Macro no acepta empleados privados",
                   details |-> [banco |-> banco]]
             ELSE IF banco.restricciones /\ c.sueldoNeto <= 650000
             THEN [success |-> FALSE,
                   message |-> banco.nombre \o " requiere sueldo superior a $650.000",
                   details |-> [banco |-> banco, requiredSalary |-> 650000]]
             ELSE IF banco.situacion >= 4
             THEN [success |-> FALSE,
                   message |-> banco.nombre \o " en situacion " \o ToString(banco.situacion)
                               \o " - No habilitado",
                   details |-> [banco |-> banco]]
             ELSE IF banco.requiereCuenta /\ CuentaMissing(c.numeroCuenta)
             THEN [success |-> FALSE,
                   message |-> banco.nombre \o " requiere numero de cuenta",
                   details |-> [banco |-> banco]]
             ELSE IF banco.id = "macro" /\ ~IsFalsy(c.numeroCuenta) /\ blocked
             THEN [success |-> FALSE,
                   message |-> "Cuenta bancaria bloqueada",
                   details |-> [banco |-> banco, accountBlocked |-> TRUE]]
             ELSE [success |-> TRUE,
                   message |-> banco.nombre \o " habilitado",
                   details |-> [banco |-> banco]]

validateBancoThrows_p1(c) ==
    /\ FindBanco(bancosData, c.bancoPagador) # {}
    /\ LET banco == BancoOf(bancosData, c)
       IN  /\ ~(banco.restricciones /\ c.sueldoNeto < 650000)
           /\ ~(banco.situacion >= 4)
           /\ ~(banco.id = "macro" /\ c.tipoEmpleado = "privado")
           /\ banco.requiereCuenta
           /\ CuentaCheckThrows(c.numeroCuenta)

validateBanco_p1(c, blocked) ==
    IF FindBanco(bancosData, c.bancoPagador) = {}
    THEN [success |-> FALSE, message |-> "Banco no encontrado", details |-> EmptyObject]
    ELSE LET banco == BancoOf(bancosData, c)
         IN  IF banco.restricciones /\ c.sueldoNeto < 650000
             THEN [success |-> FALSE,
                   message |-> banco.nombre \o " requiere sueldo minimo de $650.000",
                   details |-> [banco |-> banco, requiredSalary |-> 650000]]
             ELSE IF banco.situacion >= 4
             THEN [success |-> FALSE,
                   message |-> banco.nombre \o " en situacion " \o ToString(banco.situacion)
                               \o " - No habilitado",
                   details |-> [banco |-> banco]]
             ELSE IF banco.id = "macro" /\ c.tipoEmpleado = "privado"
             THEN [success |-> FALSE,
                   message |-> "Banco Macro no acepta empleados privados",
                   details |-> [banco |-> banco]]
             ELSE IF banco.requiereCuenta /\ CuentaMissing(c.numeroCuenta)
             THEN [success |-> FALSE,
                   message |-> banco.nombre \o " requiere numero de cuenta",
                   details |-> [banco |-> banco]]
             ELSE IF blocked
             THEN [success |-> FALSE,
                   message |-> "Cuenta bancaria bloqueada",
                   details |-> [banco |-> banco, accountBlocked |-> TRUE]]
             ELSE [success |-> TRUE,
                   message |-> banco.nombre \o " habilitado",
                   details |-> [banco |-> banco]]

validateBancoThrows(c) ==
    IF vs = "lib" THEN validateBancoThrows_lib(c) ELSE validateBancoThrows_p1(c)

validateBanco(c, blocked) ==
    IF vs = "lib" THEN validateBanco_lib(c, blocked) ELSE validateBanco_p1(c, blocked)

-----------------------------------------------------------------------------
(* Amount calculator *)

\* bancoResult.details?.banco?.situacion === 3
BancoSituacion3(bancoRes) ==
    Has(bancoRes, "details") /\ Has(bancoRes.details, "banco")
    /\ bancoRes.details.banco.situacion = 3

calculateMaxAmount_lib(c, bcraRes, bancoRes) ==
    IF Has(bcraRes, "situacion5") /\ bcraRes.situacion5 THEN 100000
    ELSE LET publico == c.tipoEmpleado = "publico" \/ c.tipoEmpleado = "jubilado"
             privado == c.tipoEmpleado = "privado"
             montoMaximo ==
                 IF c.sueldoNeto > 1000000
                 THEN (IF publico THEN 200000 ELSE IF privado THEN 150000 ELSE 0)
                 ELSE IF c.sueldoNeto > 800000
                 THEN (IF publico THEN 150000 ELSE IF privado THEN 100000 ELSE 0)
                 ELSE IF c.sueldoNeto > 500000 THEN 100000
                 ELSE 0
         IN  IF BancoSituacion3(bancoRes) THEN Min(montoMaximo, 150000) ELSE montoMaximo

calculateMaxAmount_p1(c, bcraRes, bancoRes) ==
    LET base1 == IF c.sueldoNeto >= 1000000 THEN 200000
                 ELSE IF c.sueldoNeto >= 800000 THEN 150000
                 ELSE IF c.sueldoNeto >= 500000 THEN 100000
                 ELSE 0
        base2 == IF c.tipoEmpleado = "publico" \/ c.tipoEmpleado = "jubilado"
                 THEN Min(base1, 200000)
                 ELSE IF c.tipoEmpleado = "privado" THEN Min(base1, 150000)
                 ELSE base1
        base3 == IF BancoSituacion3(bancoRes) THEN Min(base2, 150000) ELSE base2
        bcraDetails == IF Has(bcraRes, "details") THEN bcraRes.details ELSE EmptyObject
        base4 == IF Has(bcraDetails, "porcentajeProblematicas")
                    /\ PctGT(bcraDetails.porcentajeProblematicas, 20)
                 THEN Min(base3, 100000) ELSE base3
        base5 == IF Has(bcraDetails, "montoTotal") /\ bcraDetails.montoTotal > 100000
                 THEN Min(base4, 100000) ELSE base4
    IN  base5

calculateMaxAmount(c, bcraRes, bancoRes) ==
    IF vs = "lib" THEN calculateMaxAmount_lib(c, bcraRes, bancoRes)
    ELSE calculateMaxAmount_p1(c, bcraRes, bancoRes)

-----------------------------------------------------------------------------
(* Evaluation orchestrator (ValidationService.evaluateCliente) *)

\* details?.requiresManualReview
RequiresManualReview(res) ==
    Has(res, "details") /\ Has(res.details, "requiresManualReview")
    /\ res.details.requiresManualReview

\* mutant: the entry of the bureau stage is left as not evaluated
Rechazado_BureauOmitted(motivo, protecap, bcraRes, banco) ==
    [resultado |-> "rechazado", motivoRechazo |-> motivo,
     detalles |-> [protecap |-> protecap, bcra |-> NoEvaluado, banco |-> banco]]

Rechazado(motivo, protecap, bcraRes, banco) ==
    [resultado |-> "rechazado", motivoRechazo |-> motivo,
     detalles |-> [protecap |-> protecap, bcra |-> bcraRes, banco |-> banco]]

Pendiente(motivo, protecap, bcraRes, banco) ==
    [resultado |-> "pendiente", motivoRechazo |-> motivo,
     detalles |-> [protecap |-> protecap, bcra |-> bcraRes, banco |-> banco]]

Aprobado(montoMaximo, protecap, bcraRes, banco) ==
    [resultado |-> "aprobado", montoMaximo |-> montoMaximo,
     detalles |-> [protecap |-> protecap, bcra |-> bcraRes, banco |-> banco,
                   montoCalculado |-> montoMaximo]]

\* mutant: the zero-amount rejection also carries montoMaximo
RechazadoMontoCero_WithAmount(protecap, bcraRes, banco) ==
    [resultado |-> "rechazado",
     motivoRechazo |-> "No califica para monto minimo de prestamo",
     montoMaximo |-> 0,
     detalles |-> [protecap |-> protecap, bcra |-> bcraRes, banco |-> banco,
                   montoCalculado |-> 0]]

\* revision p1: if (montoMaximo === 0)
RechazadoMontoCero(protecap, bcraRes, banco) ==
    [resultado |-> "rechazado",
     motivoRechazo |-> "No califica para monto minimo de prestamo",
     detalles |-> [protecap |-> protecap, bcra |-> bcraRes, banco |-> banco,
                   montoCalculado |-> 0]]

\* revision p1: the catch of evaluateCliente
PendienteErrorTecnico ==
    Pendiente("Error tecnico en evaluacion - Pendiente revision manual",
              ErrorTecnico, ErrorTecnico, ErrorTecnico)

\* the end of evaluateCliente once calculateMaxAmount has returned
FinalResult_lib(montoMaximo, protecap, bcraRes, banco) ==
    Aprobado(montoMaximo, protecap, bcraRes, banco)

FinalResult_p1(montoMaximo, protecap, bcraRes, banco) ==
    IF montoMaximo = 0 THEN RechazadoMontoCero(protecap, bcraRes, banco)
    ELSE Aprobado(montoMaximo, protecap, bcraRes, banco)

FinalResult(montoMaximo, protecap, bcraRes, banco) ==
    IF vs = "lib" THEN FinalResult_lib(montoMaximo, protecap, bcraRes, banco)
    ELSE FinalResult_p1(montoMaximo, protecap, bcraRes, banco)

\* mutant: the requiresManualReview flag of a failed bureau result is ignored
BCRAFailureResult_IgnoresReview(protecap, bcraRes) ==
    Rechazado(bcraRes.message, protecap, bcraRes, NoEvaluado)

\* what evaluateCliente does with a failed bcraResult (the same in both revisions)
BCRAFailureResult(protecap, bcraRes) ==
    IF RequiresManualReview(bcraRes)
    THEN Pendiente(bcraRes.message, protecap, bcraRes, NoEvaluado)
    ELSE Rechazado(bcraRes.message, protecap, bcraRes, NoEvaluado)

-----------------------------------------------------------------------------
(* The applicants of the model *)

Sueldos == {300000, 500000, 650000, 900000, 1100000}

Dnis == { <<1,2,3,4,5,6,7,8>>,        \* registry: active credit
          <<8,7,6,5,4,3,2,1>>,        \* registry: no active credit
          <<1,1,2,2,3,3,4,4>>,        \* registry: active credit
          <<3,0,1,1,1,2,2,2>>,
          <<3,0,1,1,1,2,2,4>>,
          <<1,2,3,4,5,6,7>>,          \* 7 digits
          <<2,0,3,0,1,1,1,2,2,2,0>>,  \* a CUIT with a valid check digit
          <<1,2,3>> }                 \* malformed

TiposEmpleado == {"publico", "privado", "jubilado", ""}

CuentaVacia == [type |-> "string", value |-> ""]

Cuentas == { [type |-> "undefined", value |-> ""],
             CuentaVacia,
             [type |-> "string", value |-> "   "],
             [type |-> "string", value |-> "0012345"],
             [type |-> "number", value |-> "12345"] }

\* The applicants: every identifier with a low and a high income; every
\* income, employment, bank and account for an identifier the bureau stage
\* lets through; every income with the identifiers that the seeded
\* simulation degrades.  The form shows the account field for Banco Macro
\* only; it is "" otherwise.
Clientes ==
    [dni : Dnis, sueldoNeto : {300000, 1100000}, tipoEmpleado : {"publico"},
     bancoPagador : {"nacion"}, numeroCuenta : {CuentaVacia}]
    \cup
    [dni : {<<8,7,6,5,4,3,2,1>>}, sueldoNeto : Sueldos, tipoEmpleado : TiposEmpleado,
     bancoPagador : {"macro"}, numeroCuenta : Cuentas]
    \cup
    [dni : {<<8,7,6,5,4,3,2,1>>}, sueldoNeto : Sueldos, tipoEmpleado : TiposEmpleado,
     bancoPagador : {"nacion", "bbva", "supervielle", "desconocido"},
     numeroCuenta : {CuentaVacia}]
    \cup
    [dni : {<<3,0,1,1,1,2,2,2>>, <<3,0,1,1,1,2,2,4>>}, sueldoNeto : Sueldos,
     tipoEmpleado : {"publico", "privado"}, bancoPagador : {"nacion", "bbva"},
     numeroCuenta : {CuentaVacia}]

NoCliente == [dni |-> <<>>, sueldoNeto |-> 0, tipoEmpleado |-> "",
              bancoPagador |-> "", numeroCuenta |-> [type |-> "undefined", value |-> ""]]

\* no static method has been called directly
NoCall == [fn |-> "none"]

\* localStorage.getItem returns null: the item was never set, or was removed
NoItem == [item |-> "null"]

\* useState<Comercializador | null>(null)
NoUser == [id |-> 0]

\* the interleaved calls of evaluateCliente
Evaluations == {1, 2}

\* a call that has not begun: its locals, what the bureau query heard from
\* its environment (heard) and whether the other call was running when it
\* began (overlapped)
NoEval == [pc |-> "idle", cliente |-> NoCliente, sueldoValidation |-> Unset,
           protecapResult |-> Unset, bcraResult |-> Unset, bancoResult |-> Unset,
           cuit |-> <<>>, attempt |-> 0, lastError |-> "", heard |-> [kind |-> "none"],
           blocked |-> FALSE, result |-> Unset, thrown |-> "", overlapped |-> FALSE]

-----------------------------------------------------------------------------
(* State machine *)

Init ==
    /\ vs \in {"lib", "p1"}
    /\ bcra \in {"A", "B"}
    \* revision A never reads the environment
    /\ envToken \in (IF bcra = "A" THEN {FALSE} ELSE BOOLEAN)
    /\ pc = "idle"
    /\ cliente = NoCliente
    /\ sueldoValidation = Unset
    /\ protecapResult = Unset
    /\ bcraResult = Unset
    /\ bancoResult = Unset
    /\ cuit = <<>>
    /\ attempt = 0
    /\ lastError = ""
    /\ consultaError = ""
    /\ requests = 0
    /\ inFlight = 0
    /\ waits = <<>>
    /\ result = Unset
    /\ thrown = ""
    /\ call = NoCall
    /\ deadlinePassed = FALSE
    /\ cancelled = FALSE
    /\ evals = [e \in Evaluations |-> NoEval]
    /\ storage = NoItem
    /\ user = NoUser
    /\ pending = {}

\* evaluateCliente resolves with r
Resolve(r) == result' = r /\ pc' = "done"

\* evaluateCliente is called: revision lib checks the income at once, then
\* both revisions call validateProtecap, which waits for its timer
evaluateCliente(c) ==
    /\ pc = "idle"
    /\ cliente' = c
    /\ IF vs = "lib"
       THEN /\ sueldoValidation' = validateSueldoMinimo(c.sueldoNeto)
            /\ IF ~sueldoValidation'.success
               THEN Resolve(Rechazado(sueldoValidation'.message, NoEvaluado, NoEvaluado, NoEvaluado))
               ELSE pc' = "protecap" /\ UNCHANGED result
       ELSE pc' = "protecap" /\ UNCHANGED <<sueldoValidation, result>>
    /\ UNCHANGED <<cancelled, deadlinePassed, storage, user, pending, evals,
                   call, vs, bcra, envToken, protecapResult, bcraResult,
                   bancoResult, cuit, attempt, lastError, consultaError,
                   requests, inFlight, waits, thrown>>

\* the timer of validateProtecap fires
ProtecapDone ==
    /\ pc = "protecap"
    /\ protecapResult' = validateProtecap(cliente.dni)
    /\ IF ~protecapResult'.success
       THEN Resolve(Rechazado(protecapResult'.message, protecapResult', NoEvaluado, NoEvaluado))
       ELSE pc' = "bcra" /\ UNCHANGED result
    /\ UNCHANGED <<cancelled, deadlinePassed, storage, user, pending, evals,
                   call, vs, bcra, envToken, cliente, bcraResult, bancoResult,
                   cuit, attempt, lastError, consultaError, requests,
                   inFlight, waits, sueldoValidation, thrown>>

\* validateBCRA has returned res: evaluateCliente goes on
BCRAReturns(res) ==
    /\ bcraResult' = res
    /\ IF ~res.success
       THEN Resolve(BCRAFailureResult(protecapResult, res))
       ELSE pc' = "banco" /\ UNCHANGED result


\* evaluateCliente calls validateBCRA: the identifier is derived, then
\* consultarDeudas either answers at once (no token: the simulation) or
\* issues the first request
validateBCRA ==
    /\ pc = "bcra"
    /\ IF ~validateCuit(cliente.dni) /\ dniToCuitThrows(cliente.dni)
       THEN \* dniToCuit throws: the outer catch of validateBCRA
            /\ BCRAReturns(validateBCRAUnexpected)
            /\ UNCHANGED <<cuit, attempt, consultaError, requests, inFlight>>
       ELSE /\ cuit' = IF validateCuit(cliente.dni) THEN cliente.dni
                       ELSE dniToCuit(cliente.dni)
            /\ IF ~getAuthToken
               THEN \* revision A throws TOKEN_NOT_CONFIGURED and validateBCRA
                    \* calls generateMockResponse; revision B returns
                    \* generateMockResponse itself
                    /\ consultaError' = consultarDeudasNoToken
                    /\ \E draw \in MockDraws :
                          IF consultaError' # ""
                          THEN BCRAReturns(validateBCRACatch(consultaError', cuit', draw))
                          ELSE BCRAReturns(validateBCRAResponse(
                                              generateMockResponse(cuit', draw)))
                    /\ UNCHANGED <<attempt, requests, inFlight>>
               ELSE /\ attempt' = 1
                    /\ requests' = requests + 1
                    /\ inFlight' = inFlight + 1
                    /\ pc' = "fetch"
                    /\ UNCHANGED <<bcraResult, result, consultaError>>
    /\ UNCHANGED <<cancelled, deadlinePassed, storage, user, pending, evals,
                   call, vs, bcra, envToken, cliente, protecapResult,
                   bancoResult, lastError, waits, sueldoValidation, thrown>>

\* fetch resolves with an ok response: makeRequest clears its timer and
\* awaits response.json()
ResponseOk ==
    /\ pc = "fetch"
    /\ pc' = "body"
    /\ UNCHANGED <<cancelled, deadlinePassed, storage, user, pending, evals,
                   call, vs, bcra, envToken, cliente, protecapResult,
                   bcraResult, bancoResult, cuit, attempt, lastError,
                   consultaError, requests, inFlight, waits, sueldoValidation,
                   result, thrown>>

\* TIMEOUT_MS pass while response.json() is awaited: the timer was cleared,
\* so nothing aborts the attempt
DeadlineExpires ==
    /\ pc = "body"
    /\ ~deadlinePassed
    /\ deadlinePassed' = TRUE
    /\ UNCHANGED <<cancelled, storage, user, pending, evals, call, vs, bcra,
                   envToken, pc, cliente, protecapResult, bcraResult,
                   bancoResult, cuit, attempt, lastError, consultaError,
                   requests, inFlight, waits, sueldoValidation, result, thrown>>

\* the caller wants the evaluation cancelled while the bureau is queried:
\* consultarDeudas(cuit) and makeRequest(cuit, token) take no signal, so the
\* wish reaches neither the attempt in progress nor the loop
CallerCancels ==
    /\ pc \in {"fetch", "body", "backoff"}
    /\ ~cancelled
    /\ cancelled' = TRUE
    /\ UNCHANGED <<deadlinePassed, storage, user, pending, evals, call, vs,
                   bcra, envToken, pc, cliente, protecapResult, bcraResult,
                   bancoResult, cuit, attempt, lastError, consultaError,
                   requests, inFlight, waits, sueldoValidation, result, thrown>>

\* response.json() resolves: the body was received and parsed
FetchResolves(apiResponse) ==
    /\ pc = "body"
    /\ inFlight' = inFlight - 1
    /\ BCRAReturns(validateBCRAResponse(processResponse(apiResponse, cuit)))
    /\ UNCHANGED <<cancelled, deadlinePassed, storage, user, pending, evals,
                   call, vs, bcra, envToken, cliente, protecapResult,
                   bancoResult, cuit, attempt, lastError, consultaError,
                   requests, waits, sueldoValidation, thrown>>

\* the attempt fails: makeRequest throws, consultarDeudas catches.  The timer
\* aborts the fetch and a response that is not ok arrives only while fetch
\* is awaited; the connection may break and (kind "other") a value that is
\* no Error may be thrown at either await.
FetchFails(f) ==
    /\ pc = (IF f.kind \in {"abort", "http"} THEN "fetch" ELSE pc)
    /\ pc \in {"fetch", "body"}
    /\ inFlight' = inFlight - 1
    /\ lastError' = makeRequestError(f)
    /\ IF attempt < MAX_RETRIES
       THEN /\ waits' = Append(waits, BackoffDelay(attempt))
            /\ pc' = "backoff"
            /\ UNCHANGED <<bcraResult, result, consultaError>>
       ELSE /\ consultaError' = RetriesExhaustedError(lastError')
            /\ BCRAReturns(validateBCRACatch(consultaError', cuit,
                                              CHOOSE d \in MockDraws_A : d.favorable))
            /\ UNCHANGED waits
    /\ UNCHANGED <<cancelled, deadlinePassed, storage, user, pending, evals,
                   call, vs, bcra, envToken, cliente, protecapResult,
                   bancoResult, cuit, attempt, requests, sueldoValidation,
                   thrown>>

\* the backoff timer fires: the loop issues the next request
BackoffElapsed ==
    /\ pc = "backoff"
    /\ deadlinePassed' = FALSE
    /\ attempt' = attempt + 1
    /\ requests' = requests + 1
    /\ inFlight' = inFlight + 1
    /\ pc' = "fetch"
    /\ UNCHANGED <<cancelled, storage, user, pending, evals, call, vs, bcra,
                   envToken, cliente, protecapResult, bcraResult, bancoResult,
                   cuit, lastError, consultaError, waits, sueldoValidation,
                   result, thrown>>

\* the timer of validateBanco fires; evaluateCliente then computes the amount.
\* Revision lib has no try/catch: what validateBanco throws rejects the promise.
BancoDone ==
    /\ pc = "banco"
    /\ IF validateBancoThrows(cliente)
       THEN IF vs = "lib"
            THEN /\ thrown' = "TypeError"
                 /\ pc' = "threw"
                 /\ UNCHANGED <<bancoResult, result>>
            ELSE /\ Resolve(PendienteErrorTecnico)
                 /\ UNCHANGED <<bancoResult, thrown>>
       ELSE /\ \E blocked \in BOOLEAN : bancoResult' = validateBanco(cliente, blocked)
            /\ IF ~bancoResult'.success
               THEN Resolve(Rechazado(bancoResult'.message, protecapResult, bcraResult,
                                      bancoResult'))
               ELSE Resolve(FinalResult(calculateMaxAmount(cliente, bcraResult, bancoResult'),
                                        protecapResult, bcraResult, bancoResult'))
            /\ UNCHANGED thrown
    /\ UNCHANGED <<cancelled, deadlinePassed, storage, user, pending, evals,
                   call, vs, bcra, envToken, cliente, protecapResult,
                   bcraResult, cuit, attempt, lastError, consultaError,
                   requests, inFlight, waits, sueldoValidation>>

Next ==
    \/ \E c \in Clientes : evaluateCliente(c)
    \/ ProtecapDone
    \/ validateBCRA
    \/ ResponseOk
    \/ DeadlineExpires
    \/ CallerCancels
    \/ \E apiResponse \in ApiResponses : FetchResolves(apiResponse)
    \/ \E f \in FetchFailures : FetchFails(f)
    \/ BackoffElapsed
    \/ BancoDone

Spec == Init /\ [][Next]_vars

-----------------------------------------------------------------------------
(* The static methods called directly.  BCRAService.validateCuit, dniToCuit *)
(* and generateMockResponse and ValidationService.calculateMaxAmount are    *)
(* public static methods; SpecFn applies one of them to an input drawn from *)
(* the sets below and records the call in the variable call.                *)

progVars == <<vs, bcra, envToken, pc, cliente, protecapResult, bcraResult, bancoResult,
              cuit, attempt, lastError, consultaError, requests, inFlight, waits,
              sueldoValidation, result, thrown, deadlinePassed, cancelled, evals,
              storage, user, pending>>

\* person identifiers of 8 digits: the three of the registry, and ten whose
\* weighted sums leave the remainders 7 9 0 2 4 6 8 10 1 3
Dnis8 == { <<1,2,3,4,5,6,7,8>>, <<8,7,6,5,4,3,2,1>>, <<1,1,2,2,3,3,4,4>> }
         \cup { <<3,0,1,1,1,2,2,x>> : x \in 0..9 }

\* person identifiers of 7 digits
Dnis7 == { <<1,2,3,4,5,6,7>>, <<3,0,1,1,1,2,2>>, <<1,1,2,2,3,3,4>> }

\* strings that are no person identifier: too short, too long, empty, and
\* "1234-567" (10 stands for "-")
DnisMalformed == { <<1,2,3>>, <<>>, <<1,2,3,4,5,6>>, <<1,2,3,4,5,6,7,8,9>>,
                   <<1,2,3,4,10,5,6,7>> }

\* strings of 11 digits: "20", a person identifier, and every last digit
Cuits11 == { <<2,0>> \o d \o <<x>> : d \in Dnis8, x \in 0..9 }

\* strings that are no string of 11 digits: 10 and 12 digits, "20-30111222-0",
\* and 11 characters with a letter (13 stands for "a")
CuitsMalformed == { <<2,0,3,0,1,1,1,2,2,2>>, <<2,0,3,0,1,1,1,2,2,2,0,0>>,
                    <<2,0,10,3,0,1,1,1,2,2,2,10,0>>, <<2,0,3,0,1,1,1,2,2,13,0>> }

Identifiers == Dnis8 \cup Dnis7 \cup DnisMalformed \cup Cuits11 \cup CuitsMalformed

\* the message of the Error dniToCuit throws
dniToCuitError_A == "DNI_INVALID_LENGTH"

dniToCuitError_B == "DNI invalido"

dniToCuitError == IF bcra = "A" THEN dniToCuitError_A ELSE dniToCuitError_B

CallValidateCuit ==
    /\ call = NoCall
    /\ \E id \in Identifiers :
          call' = [fn |-> "validateCuit", arg |-> id, out |-> validateCuit(id)]
    /\ UNCHANGED progVars

CallDniToCuit ==
    /\ call = NoCall
    /\ \E d \in Identifiers :
          call' = [fn |-> "dniToCuit", arg |-> d,
                   out |-> IF dniToCuitThrows(d) THEN [threw |-> dniToCuitError]
                           ELSE [value |-> dniToCuit(d)]]
    /\ UNCHANGED progVars

\* the identifiers generateMockResponse is called with: validateBCRA hands it
\* the cuit it derived
MockCuits == { dniToCuit_A(d) : d \in Dnis8 }

CallGenerateMockResponse ==
    /\ call = NoCall
    /\ \E c \in MockCuits, draw \in MockDraws :
          call' = [fn |-> "generateMockResponse", arg |-> c,
                   out |-> generateMockResponse(c, draw)]
    /\ UNCHANGED progVars

\* generateMockResponse is called once more with the same cuit
CallGenerateMockResponseAgain ==
    /\ call.fn = "generateMockResponse"
    /\ ~Has(call, "again")
    /\ \E draw \in MockDraws :
          call' = [fn |-> "generateMockResponse", arg |-> call.arg, out |-> call.out,
                   again |-> generateMockResponse(call.arg, draw)]
    /\ UNCHANGED progVars

\* the successful bureau results evaluateCliente may hand to
\* calculateMaxAmount: the verdicts on simulated and on live responses
BcraResponses ==
    { generateMockResponse(c, draw) :
        c \in {dniToCuit_A(<<3,0,1,1,1,2,2,2>>), dniToCuit_A(<<8,7,6,5,4,3,2,1>>)},
        draw \in MockDraws }
    \cup { processResponse(r, <<2,0,3,0,1,1,1,2,2,2,0>>) : r \in ApiResponses }

BcraResults == { r \in { validateBCRAResponse(b) : b \in BcraResponses } : r.success }

AmountSueldos == { 300000, 499999, 500000, 500001, 650000, 799999, 800000, 800001,
                   900000, 999999, 1000000, 1000001, 1100000 }

AmountClientes ==
    [dni : {<<8,7,6,5,4,3,2,1>>}, sueldoNeto : AmountSueldos, tipoEmpleado : TiposEmpleado,
     bancoPagador : {"nacion", "bbva"}, numeroCuenta : {CuentaVacia}]

\* evaluateCliente calls calculateMaxAmount once every stage has passed
CallCalculateMaxAmount ==
    /\ call = NoCall
    /\ \E c \in AmountClientes, bcraRes \in BcraResults :
          /\ vs = "lib" => validateSueldoMinimo(c.sueldoNeto).success
          /\ validateBanco(c, FALSE).success
          /\ LET bancoRes == validateBanco(c, FALSE)
             IN  call' = [fn |-> "calculateMaxAmount",
                          arg |-> [cliente |-> c, bcra |-> bcraRes, banco |-> bancoRes],
                          out |-> calculateMaxAmount(c, bcraRes, bancoRes)]
    /\ UNCHANGED progVars

\* the debt records handed to processResponse directly: those of the live
\* answers and one without monto
DeudasFn == Deudas \cup {[situacion |-> 2]}

\* consultarDeudas calls processResponse with the body of the answer
CallProcessResponse ==
    /\ call = NoCall
    /\ \E d \in SeqsUpTo(DeudasFn, MaxDeudas + 1) \cup {DeudasDiezPorCiento} :
          call' = [fn |-> "processResponse", arg |-> [deudas |-> d],
                   out |-> processResponse([deudas |-> d], <<2,0,3,0,1,1,1,2,2,2,0>>)]
    /\ UNCHANGED progVars

\* the applicants handed to validateBanco directly: every bank, income,
\* employment and account with which it returns
BancoClientes ==
    { c \in [dni : {<<8,7,6,5,4,3,2,1>>}, sueldoNeto : {500000, 650000, 900000},
             tipoEmpleado : {"publico", "privado"},
             bancoPagador : {"nacion", "macro", "bbva", "desconocido"},
             numeroCuenta : Cuentas] : ~validateBancoThrows(c) }

\* validateBanco is called; blocked is what its Math.random() decides
CallValidateBanco ==
    /\ call = NoCall
    /\ \E c \in BancoClientes, blocked \in BOOLEAN :
          call' = [fn |-> "validateBanco", arg |-> c, out |-> validateBanco(c, blocked)]
    /\ UNCHANGED progVars

\* validateBanco is called once more for the same applicant
CallValidateBancoAgain ==
    /\ call.fn = "validateBanco"
    /\ ~Has(call, "again")
    /\ \E blocked \in BOOLEAN :
          call' = [fn |-> "validateBanco", arg |-> call.arg, out |-> call.out,
                   again |-> validateBanco(call.arg, blocked)]
    /\ UNCHANGED progVars

NextFn ==
    \/ CallProcessResponse
    \/ CallValidateBanco
    \/ CallValidateBancoAgain
    \/ CallValidateCuit
    \/ CallDniToCuit
    \/ CallGenerateMockResponse
    \/ CallGenerateMockResponseAgain
    \/ CallCalculateMaxAmount

SpecFn == Init /\ [][NextFn]_vars

-----------------------------------------------------------------------------
(* Two calls of evaluateCliente interleaved.  evaluateCliente is a static  *)
(* async method: its parameter clienteData and its constants protecapResult,*)
(* bcraResult, bancoResult, and the attempt and lastError of the            *)
(* consultarDeudas it awaits, belong to the call.  evals[e] holds them for  *)
(* call e; a step of SpecPair runs one call from one await to the next.     *)

soloVars == <<vs, bcra, envToken, pc, cliente, protecapResult, bcraResult, bancoResult,
              cuit, attempt, lastError, consultaError, requests, inFlight, waits,
              sueldoValidation, result, thrown, call, deadlinePassed, cancelled,
              storage, user, pending>>

\* mutant: clienteData is kept in one place that the first call has written
ClienteOf_Shared(e) == IF evals[1].pc = "idle" THEN evals[e].cliente ELSE evals[1].cliente

\* clienteData of call e
ClienteOf(e) == evals[e].cliente

\* the applicants of the interleaved calls: in the registry with an active
\* credit; clean, with an account at Banco Macro; the same with an account
\* that is no string; a low income; a malformed identifier
PairClientes ==
    { [dni |-> <<1,2,3,4,5,6,7,8>>, sueldoNeto |-> 1100000, tipoEmpleado |-> "publico",
       bancoPagador |-> "nacion", numeroCuenta |-> CuentaVacia],
      [dni |-> <<8,7,6,5,4,3,2,1>>, sueldoNeto |-> 900000, tipoEmpleado |-> "publico",
       bancoPagador |-> "macro", numeroCuenta |-> [type |-> "string", value |-> "0012345"]],
      [dni |-> <<8,7,6,5,4,3,2,1>>, sueldoNeto |-> 900000, tipoEmpleado |-> "publico",
       bancoPagador |-> "macro", numeroCuenta |-> [type |-> "number", value |-> "12345"]],
      [dni |-> <<3,0,1,1,1,2,2,2>>, sueldoNeto |-> 300000, tipoEmpleado |-> "privado",
       bancoPagador |-> "nacion", numeroCuenta |-> CuentaVacia],
      [dni |-> <<1,2,3>>, sueldoNeto |-> 1100000, tipoEmpleado |-> "publico",
       bancoPagador |-> "nacion", numeroCuenta |-> CuentaVacia] }

\* what the registry answers to the interleaved calls: no debts, a debt in
\* situacion 5, a body without deudas
PairApiResponses ==
    { [deudas |-> <<>>], [deudas |-> <<[situacion |-> 5, monto |-> 60000]>>],
      [observaciones |-> <<>>] }

\* how their attempts fail
PairFetchFailures == {[kind |-> "abort"], [kind |-> "http", status |-> 503], [kind |-> "other"]}

\* evaluateCliente of call ev resolves with r
Resolved(ev, r) == [ev EXCEPT !.result = r, !.pc = "done"]

\* validateBCRA of call ev has returned res
BCRAReturned(ev, res) ==
    IF ~res.success
    THEN Resolved([ev EXCEPT !.bcraResult = res], BCRAFailureResult(ev.protecapResult, res))
    ELSE [ev EXCEPT !.bcraResult = res, !.pc = "banco"]

\* call e is between its first and its last step
Running(e) == evals[e].pc \notin {"idle", "done", "threw"}

PairStart(e, c) ==
    /\ evals[e].pc = "idle"
    /\ \A o \in Evaluations \ {e} : evals[o].cliente.dni # c.dni
    /\ LET ev == [evals[e] EXCEPT !.cliente = c,
                                  !.overlapped = \E o \in Evaluations \ {e} : Running(o)]
           sv == validateSueldoMinimo(c.sueldoNeto)
       IN  evals' = [evals EXCEPT ![e] =
                IF vs = "lib"
                THEN IF ~sv.success
                     THEN Resolved([ev EXCEPT !.sueldoValidation = sv],
                                   Rechazado(sv.message, NoEvaluado, NoEvaluado, NoEvaluado))
                     ELSE [ev EXCEPT !.sueldoValidation = sv, !.pc = "protecap"]
                ELSE [ev EXCEPT !.pc = "protecap"]]
    /\ UNCHANGED soloVars

PairProtecapDone(e) ==
    /\ evals[e].pc = "protecap"
    /\ LET res == validateProtecap(ClienteOf(e).dni)
           ev == [evals[e] EXCEPT !.protecapResult = res]
       IN  evals' = [evals EXCEPT ![e] =
                IF ~res.success
                THEN Resolved(ev, Rechazado(res.message, res, NoEvaluado, NoEvaluado))
                ELSE [ev EXCEPT !.pc = "bcra"]]
    /\ UNCHANGED soloVars

PairValidateBCRA(e) ==
    /\ evals[e].pc = "bcra"
    /\ LET dni == ClienteOf(e).dni
       IN  IF ~validateCuit(dni) /\ dniToCuitThrows(dni)
           THEN evals' = [evals EXCEPT ![e] = BCRAReturned(evals[e], validateBCRAUnexpected)]
           ELSE LET c == IF validateCuit(dni) THEN dni ELSE dniToCuit(dni)
                    ev == [evals[e] EXCEPT !.cuit = c]
                IN  IF ~getAuthToken
                    THEN \E draw \in MockDraws :
                            evals' = [evals EXCEPT ![e] =
                                BCRAReturned([ev EXCEPT !.heard = [kind |-> "mock", draw |-> draw]],
                                    IF consultarDeudasNoToken # ""
                                    THEN validateBCRACatch(consultarDeudasNoToken, c, draw)
                                    ELSE validateBCRAResponse(generateMockResponse(c, draw)))]
                    ELSE evals' = [evals EXCEPT ![e] = [ev EXCEPT !.attempt = 1, !.pc = "fetch"]]
    /\ UNCHANGED soloVars

PairResponseOk(e) ==
    /\ evals[e].pc = "fetch"
    /\ evals' = [evals EXCEPT ![e].pc = "body"]
    /\ UNCHANGED soloVars

PairFetchResolves(e, apiResponse) ==
    /\ evals[e].pc = "body"
    /\ evals' = [evals EXCEPT ![e] =
           BCRAReturned([evals[e] EXCEPT !.heard = [kind |-> "answer", body |-> apiResponse]],
                        validateBCRAResponse(processResponse(apiResponse, evals[e].cuit)))]
    /\ UNCHANGED soloVars

PairFetchFails(e, f) ==
    /\ evals[e].pc = (IF f.kind \in {"abort", "http"} THEN "fetch" ELSE evals[e].pc)
    /\ evals[e].pc \in {"fetch", "body"}
    /\ LET ev == [evals[e] EXCEPT !.lastError = makeRequestError(f)]
       IN  evals' = [evals EXCEPT ![e] =
                IF ev.attempt < MAX_RETRIES
                THEN [ev EXCEPT !.pc = "backoff"]
                ELSE BCRAReturned([ev EXCEPT !.heard = [kind |-> "failure", failure |-> f]],
                         validateBCRACatch(RetriesExhaustedError(ev.lastError), ev.cuit,
                                           CHOOSE d \in MockDraws_A : d.favorable))]
    /\ UNCHANGED soloVars

PairBackoffElapsed(e) ==
    /\ evals[e].pc = "backoff"
    /\ evals' = [evals EXCEPT ![e].attempt = @ + 1, ![e].pc = "fetch"]
    /\ UNCHANGED soloVars

PairBancoDone(e) ==
    /\ evals[e].pc = "banco"
    /\ LET c == ClienteOf(e)
           ev == evals[e]
       IN  IF validateBancoThrows(c)
           THEN evals' = [evals EXCEPT ![e] =
                    IF vs = "lib" THEN [ev EXCEPT !.thrown = "TypeError", !.pc = "threw"]
                    ELSE Resolved(ev, PendienteErrorTecnico)]
           ELSE \E blocked \in BOOLEAN :
                   LET res == validateBanco(c, blocked)
                       evb == [ev EXCEPT !.bancoResult = res, !.blocked = blocked]
                   IN  evals' = [evals EXCEPT ![e] =
                           IF ~res.success
                           THEN Resolved(evb, Rechazado(res.message, ev.protecapResult,
                                                        ev.bcraResult, res))
                           ELSE Resolved(evb, FinalResult(
                                    calculateMaxAmount(c, ev.bcraResult, res),
                                    ev.protecapResult, ev.bcraResult, res))]
    /\ UNCHANGED soloVars

NextPair ==
    \/ \E e \in Evaluations, c \in PairClientes : PairStart(e, c)
    \/ \E e \in Evaluations : PairProtecapDone(e)
    \/ \E e \in Evaluations : PairValidateBCRA(e)
    \/ \E e \in Evaluations : PairResponseOk(e)
    \/ \E e \in Evaluations, apiResponse \in PairApiResponses :
          PairFetchResolves(e, apiResponse)
    \/ \E e \in Evaluations, f \in PairFetchFailures : PairFetchFails(e, f)
    \/ \E e \in Evaluations : PairBackoffElapsed(e)
    \/ \E e \in Evaluations : PairBancoDone(e)

SpecPair == Init /\ [][NextPair]_vars

-----------------------------------------------------------------------------
(* The history of evaluations (StorageService).  The item "seap_evaluations" *)
(* of localStorage holds JSON.stringify of the list of records; a record is  *)
(* told from the others by its id.                                           *)

historyFrame == <<vs, bcra, envToken, pc, cliente, protecapResult, bcraResult,
                  bancoResult, cuit, attempt, lastError, consultaError, requests,
                  inFlight, waits, sueldoValidation, result, thrown, deadlinePassed,
                  cancelled, evals, user, pending>>

\* existing.slice(0, 100)
HistoryLimit == 100

\* JSON.stringify(limited), as localStorage keeps it
Stringify(records) == [item |-> "json", text |-> records]

\* getEvaluations: stored ? JSON.parse(stored) : []
getEvaluations == IF storage = NoItem THEN <<>> ELSE storage.text

\* mutant: the record is added at the end
Unshift_Push(existing, record) == Append(existing, record)

\* existing.unshift(record)
Unshift(existing, record) == <<record>> \o existing

\* array.slice(0, n)
Slice(array, n) == SubSeq(array, 1, Min(Len(array), n))

\* the id generateId gives the next record: one that no stored record has
NextId == IF getEvaluations = <<>> THEN 1 ELSE getEvaluations[1].id + 1

saveEvaluation ==
    /\ NextId <= MaxSaved
    /\ LET record == [id |-> NextId]
           limited == Slice(Unshift(getEvaluations, record), HistoryLimit)
       IN  /\ storage' = Stringify(limited)
           /\ call' = [fn |-> "saveEvaluation", out |-> record]
    /\ UNCHANGED historyFrame

clearHistory ==
    /\ storage' = NoItem
    /\ call' = [fn |-> "clearHistory"]
    /\ UNCHANGED historyFrame

\* the limits getRecentEvaluations is called with: none, the default, more
\* than the history can hold
RecentLimits == {0, 5, HistoryLimit + 1}

getRecentEvaluations(limit) ==
    /\ call' = [fn |-> "getRecentEvaluations", arg |-> limit,
                out |-> Slice(getEvaluations, limit)]
    /\ UNCHANGED storage
    /\ UNCHANGED historyFrame

\* the state before the first call: the revisions of the evaluation services
\* play no part
InitHistory == Init /\ vs = "lib" /\ bcra = "A"

NextHistory ==
    \/ saveEvaluation
    \/ clearHistory
    \/ \E limit \in RecentLimits : getRecentEvaluations(limit)

SpecHistory == InitHistory /\ [][NextHistory]_vars

-----------------------------------------------------------------------------
(* The operator session (AuthProvider).  login awaits a timer of one second *)
(* and then looks the email up; logout is synchronous.  A pending login     *)
(* carries the history flag stale: logout was called after it was requested.*)

sessionFrame == <<vs, bcra, envToken, pc, cliente, protecapResult, bcraResult,
                  bancoResult, cuit, attempt, lastError, consultaError, requests,
                  inFlight, waits, sueldoValidation, result, thrown, deadlinePassed,
                  cancelled, evals, call, storage>>

comercializadores ==
    << [id |-> 1, email |-> "juan@comercial.com", nombre |-> "Juan Perez"],
       [id |-> 2, email |-> "maria@comercial.com", nombre |-> "Maria Garcia"],
       [id |-> 3, email |-> "admin@seap.com", nombre |-> "Administrador SEAP"] >>

\* comercializadores.find((c) => c.email === email), as a set: empty if undefined
FindComercializador(email) ==
    LET hits == {i \in 1..Len(comercializadores) : comercializadores[i].email = email}
    IN  IF hits = {} THEN {}
        ELSE {comercializadores[CHOOSE i \in hits : \A j \in hits : i <= j]}

\* the credentials login is called with
Emails == {"juan@comercial.com", "admin@seap.com", "nadie@comercial.com"}
Passwords == {"123456", "654321"}

\* the calls of login that may be pending
LoginRequests == [email : Emails, password : Passwords, stale : BOOLEAN]

\* login is called: it awaits its timer
login(email, password) ==
    /\ Cardinality(pending) < MaxPending
    /\ pending' = pending \cup {[email |-> email, password |-> password, stale |-> FALSE]}
    /\ UNCHANGED user
    /\ UNCHANGED sessionFrame

\* the timer of a login fires: the rest of login runs
LoginTimerFires(req) ==
    /\ req \in pending
    /\ pending' = pending \ {req}
    /\ LET foundUser == FindComercializador(req.email)
       IN  IF foundUser # {} /\ req.password = "123456"
           THEN user' = CHOOSE c \in foundUser : TRUE
           ELSE UNCHANGED user
    /\ UNCHANGED sessionFrame

logout ==
    /\ user' = NoUser
    /\ pending' = {[req EXCEPT !.stale = TRUE] : req \in pending}
    /\ UNCHANGED sessionFrame

InitSession == Init /\ vs = "lib" /\ bcra = "A"

NextSession ==
    \/ \E email \in Emails, password \in Passwords : login(email, password)
    \/ \E req \in LoginRequests : LoginTimerFires(req)
    \/ logout

SpecSession == InitSession /\ [][NextSession]_vars

-----------------------------------------------------------------------------
(* Properties *)

IsSet(res) == ~Has(res, "unset")

Done == pc = "done"

Resultados == {"aprobado", "rechazado", "pendiente"}

\* the bureau stage ran on a BCRAResponse (live or simulated)
HasBcraData(res) == IsSet(res) /\ Has(res, "details") /\ Has(res.details, "bcraData")

\* consultarDeudas ended by throwing the error of a failed live query
LiveQueryFailed == consultaError \notin {"", "TOKEN_NOT_CONFIGURED"}

\* C1: evaluateCliente always resolves with one of aprobado / rechazado /
\* pendiente; no exception escapes to the caller, and when a stage throws the
\* outcome is pendiente with the generic technical-error message.
C1_NoExceptionEscapes ==
    /\ pc # "threw"
    /\ thrown = ""
    /\ Done => result.resultado \in Resultados
    /\ (Done /\ validateBancoThrows(cliente) /\ IsSet(bcraResult) /\ bcraResult.success)
         => result = PendienteErrorTecnico

\* C2: a failed stage ends the evaluation at once as rechazado with the
\* message of that stage as motivoRechazo; only a failed bureau stage whose
\* details carry requiresManualReview ends it as pendiente.
StageFailureEnds(res, later) ==
    (IsSet(res) /\ ~res.success) =>
        /\ Done
        /\ result.motivoRechazo = res.message
        /\ \A l \in later : ~IsSet(l)

C2_FailedStageRejects ==
    /\ StageFailureEnds(sueldoValidation, {protecapResult, bcraResult, bancoResult})
    /\ StageFailureEnds(protecapResult, {bcraResult, bancoResult})
    /\ StageFailureEnds(bcraResult, {bancoResult})
    /\ StageFailureEnds(bancoResult, {})
    /\ \A res \in {sueldoValidation, protecapResult, bancoResult} :
          (IsSet(res) /\ ~res.success) => result.resultado = "rechazado"
    /\ (IsSet(bcraResult) /\ ~bcraResult.success) =>
          result.resultado = (IF RequiresManualReview(bcraResult) THEN "pendiente"
                              ELSE "rechazado")

C2_Witness ==
    /\ Done
    /\ IsSet(bcraResult) /\ ~bcraResult.success /\ ~RequiresManualReview(bcraResult)
    /\ result.resultado = "rechazado"
    /\ result.motivoRechazo = bcraResult.message

\* C3: an applicant with sueldoNeto below 500,000 is rechazado with the
\* minimum-income message, and the bureau and bank stages are not run: their
\* entries are "No evaluado".
C3_LowIncomeRejected ==
    (Done /\ cliente.sueldoNeto < 500000) =>
        /\ result.resultado = "rechazado"
        /\ result.motivoRechazo = validateSueldoMinimo(cliente.sueldoNeto).message
        /\ result.detalles.bcra = NoEvaluado
        /\ result.detalles.banco = NoEvaluado
        /\ ~IsSet(bcraResult) /\ ~IsSet(bancoResult)

\* C4: when every stage passed and the computed amount is 0 the outcome is
\* rechazado with the fixed reason; an aprobado outcome never carries 0.
C4_ZeroAmountRejected ==
    Done =>
        /\ result.resultado = "aprobado" => result.montoMaximo # 0
        /\ (IsSet(bancoResult) /\ bancoResult.success
              /\ calculateMaxAmount(cliente, bcraResult, bancoResult) = 0)
             => result = RechazadoMontoCero(protecapResult, bcraResult, bancoResult)

\* C5: when the live query fails (TIMEOUT, HTTP_ERROR_<status>, any other
\* error) the bureau result is a failure whose details carry
\* requiresManualReview = true, the outcome is pendiente, and the bank entry
\* is "No evaluado".
C5_TechnicalFailurePending ==
    LiveQueryFailed =>
        /\ IsSet(bcraResult) /\ ~bcraResult.success
        /\ RequiresManualReview(bcraResult)
        /\ Done
        /\ result.resultado = "pendiente"
        /\ result.detalles.bcra = bcraResult
        /\ result.detalles.banco = NoEvaluado
        /\ ~IsSet(bancoResult)

C5_Witness ==
    /\ consultaError = "HTTP_ERROR_503"
    /\ requests = 3
    /\ Done /\ result.resultado = "pendiente"

\* C6: a summary with situacion5 > 0 makes the bureau stage fail without
\* requiresManualReview, and the outcome is rechazado.
C6_DisqualifiedRejected ==
    (HasBcraData(bcraResult) /\ bcraResult.details.bcraData.resumen.situacion5 > 0) =>
        /\ ~bcraResult.success
        /\ ~RequiresManualReview(bcraResult)
        /\ Done /\ result.resultado = "rechazado"

\* C7: for a summary that is not inhabilitado the bureau stage fails exactly
\* when 100 * (situacion3 + situacion4 + situacion5) >= 40 * totalEntidades
\* with totalEntidades > 0; with totalEntidades = 0 it passes.
C7_ProblematicThreshold ==
    (HasBcraData(bcraResult) /\ ~bcraResult.details.bcraData.inhabilitado) =>
        LET r == bcraResult.details.bcraData.resumen
        IN  ~bcraResult.success <=>
               (r.totalEntidades > 0
                /\ 100 * (r.situacion3 + r.situacion4 + r.situacion5)
                     >= 40 * r.totalEntidades)

C7_Witness ==
    /\ HasBcraData(bcraResult)
    /\ ~bcraResult.details.bcraData.inhabilitado
    /\ LET r == bcraResult.details.bcraData.resumen
       IN  r.totalEntidades = 5 /\ r.situacion3 + r.situacion4 + r.situacion5 = 2
    /\ ~bcraResult.success

\* C8: a live consultarDeudas whose attempts all fail issues exactly 3
\* requests, waits 2000 ms after the first failure and 4000 ms after the
\* second, and does not wait after the third.
C8_RetryBudget ==
    /\ requests <= 3
    /\ pc = "backoff" => waits = SubSeq(<<2000, 4000>>, 1, attempt)
    /\ LiveQueryFailed => (requests = 3 /\ waits = <<2000, 4000>>)

C8_Witness == LiveQueryFailed /\ requests = 3 /\ Len(waits) = 2

\* C9: when all 3 attempts fail, consultarDeudas throws MAX_RETRIES_EXCEEDED
\* and the bureau stage reports the exhausted-retries case.
C9_MaxRetriesExceeded ==
    LiveQueryFailed =>
        /\ consultaError = "MAX_RETRIES_EXCEEDED"
        /\ bcraResult.details.error = "connection_failed"

-----------------------------------------------------------------------------
(* Properties of the static methods called directly (SpecFn) *)

\* C11: two calls of generateMockResponse with the same cuit return the same
\* summary: the same counts per situacion, totalEntidades and montoTotal, and
\* the same inhabilitado flag.
C11_MockDeterministic ==
    (call.fn = "generateMockResponse" /\ Has(call, "again")) =>
        /\ call.again.resumen = call.out.resumen
        /\ call.again.inhabilitado = call.out.inhabilitado

\* a person identifier: a string of 7 or 8 digits
IsPersonId(d) == AllDigits(d) /\ Len(d) \in {7, 8}

\* C12: for every person identifier x of 7 or 8 digits, dniToCuit(x) returns
\* a string of 11 digits that validateCuit accepts.
C12_DniToCuitValid ==
    (call.fn = "dniToCuit" /\ IsPersonId(call.arg)) =>
        /\ Has(call.out, "value")
        /\ Len(call.out.value) = 11
        /\ AllDigits(call.out.value)
        /\ validateCuit(call.out.value)

\* the weighted sum of the first 10 digits, modulo 11
RawRemainder(id) == SumSeq([i \in 1..10 |-> id[i] * multipliers[i]]) % 11

\* C13: validateCuit(id) is true exactly when id is a string of 11 digits
\* whose last digit is the check digit: 0 when the weighted sum leaves the
\* remainder 0, 11 - remainder when it leaves 2..10.  When it leaves 1 the
\* derived digit is 10: no last digit other than 0 is accepted.
C13_ValidateCuitChecksum ==
    call.fn = "validateCuit" =>
        LET id == call.arg
        IN  IF ~(Len(id) = 11 /\ AllDigits(id)) THEN ~call.out
            ELSE IF RawRemainder(id) = 0 THEN call.out <=> id[11] = 0
            ELSE IF RawRemainder(id) = 1 THEN id[11] # 0 => ~call.out
            ELSE call.out <=> id[11] = 11 - RawRemainder(id)

\* C14: dniToCuit throws unless its argument is a string of 7 or 8 digits;
\* for such a string it returns "20", the argument left-padded with "0" to 8
\* digits, and the check digit.
C14_DniToCuitLength ==
    call.fn = "dniToCuit" =>
        IF IsPersonId(call.arg)
        THEN /\ Has(call.out, "value")
             /\ Len(call.out.value) = 11
             /\ SubSeq(call.out.value, 1, 10) = <<2, 0>> \o PadStart(call.arg, 8)
             /\ validateCuitChecksum(call.out.value)
        ELSE Has(call.out, "threw")

-----------------------------------------------------------------------------
(* Properties of the stages within an evaluation (Spec) *)

\* neither a person identifier of 7 or 8 digits nor a string of 11 digits
\* with a matching check digit
IsMalformedId(d) ==
    /\ ~IsPersonId(d)
    /\ ~(Len(d) = 11 /\ AllDigits(d) /\ validateCuitChecksum(d))

\* C15: an applicant whose dni is malformed is rechazado: evaluateCliente
\* neither throws nor resolves with pendiente (or aprobado) for it.
C15_MalformedIdRejected ==
    (cliente # NoCliente /\ IsMalformedId(cliente.dni)) =>
        /\ pc # "threw"
        /\ Done => result.resultado = "rechazado"

\* the bank table of the revision that runs
TablaBancos == IF vs = "lib" THEN bancosHabilitados ELSE bancosData

\* the account number is missing or blank
CuentaEnBlanco(x) == x.type = "undefined" \/ (x.type = "string" /\ Trim(x.value) = "")

\* the conditions under which the bank stage has to fail
BankMustFail(c) ==
    \/ \A i \in 1..Len(TablaBancos) : TablaBancos[i].id # c.bancoPagador
    \/ \E i \in 1..Len(TablaBancos) :
          LET b == TablaBancos[i]
          IN  /\ b.id = c.bancoPagador
              /\ \/ b.requiereCuenta /\ CuentaEnBlanco(c.numeroCuenta)
                 \/ b.restricciones /\ c.sueldoNeto <= 650000
                 \/ b.situacion >= 4
                 \/ b.requiereCuenta /\ b.restricciones /\ c.tipoEmpleado = "privado"

\* C16: when the applicant reaches the bank stage and the bank is unknown,
\* or requires an account and none (or a blank one) was given, or has
\* restrictions and sueldoNeto <= 650,000, or is in situacion >= 4, or is the
\* restricted bank that requires an account and the applicant is privado,
\* validateBanco fails and the outcome is rechazado.
C16_BankStageFails ==
    (pc \in {"done", "threw"} /\ IsSet(bcraResult) /\ bcraResult.success
       /\ BankMustFail(cliente)) =>
        /\ IsSet(bancoResult) /\ ~bancoResult.success
        /\ result.resultado = "rechazado"

\* the registry holds an entry for dni with tieneCredito set
ActiveDebt(dni) ==
    \E i \in 1..Len(clientesMorosos) :
        clientesMorosos[i].dni = dni /\ clientesMorosos[i].tieneCredito

\* C17: once validateProtecap has run, it failed exactly when the registry
\* holds an entry for the dni with tieneCredito set; then the outcome is
\* rechazado and the details of the stage carry the montoDeuda of the entry.
C17_DelinquencyStage ==
    IsSet(protecapResult) =>
        /\ ~protecapResult.success <=> ActiveDebt(cliente.dni)
        /\ ~protecapResult.success =>
              /\ Done /\ result.resultado = "rechazado"
              /\ \E i \in 1..Len(clientesMorosos) :
                    /\ clientesMorosos[i].dni = cliente.dni
                    /\ result.detalles.protecap.details.montoDeuda
                         = clientesMorosos[i].montoDeuda

C17_Witness ==
    /\ Done
    /\ cliente.dni = <<1,1,2,2,3,3,4,4>>
    /\ IsSet(protecapResult) /\ ~protecapResult.success
    /\ result.resultado = "rechazado"
    /\ result.detalles.protecap.details.montoDeuda = 25000

-----------------------------------------------------------------------------
(* Properties of calculateMaxAmount (SpecFn) *)

\* the base amount of the income bracket, thresholds inclusive
IncomeBase(sueldoNeto) ==
    IF sueldoNeto >= 1000000 THEN 200000
    ELSE IF sueldoNeto >= 800000 THEN 150000
    ELSE IF sueldoNeto >= 500000 THEN 100000
    ELSE 0

EmploymentCategories == {"publico", "jubilado", "privado"}

EmploymentCap(tipoEmpleado) == IF tipoEmpleado = "privado" THEN 150000 ELSE 200000

\* the summary the bureau result of a call of calculateMaxAmount rests on
ResumenOf(a) == a.bcra.details.bcraData.resumen

\* the payer bank is in situacion 3
BankCapTriggered(a) == a.banco.details.banco.situacion = 3

\* more than 20% of the entities are in situacion 3, 4 or 5
PctCapTriggered(a) ==
    /\ ResumenOf(a).totalEntidades > 0
    /\ 100 * (ResumenOf(a).situacion3 + ResumenOf(a).situacion4 + ResumenOf(a).situacion5)
         > 20 * ResumenOf(a).totalEntidades

\* the total outstanding amount is above 100,000
MontoCapTriggered(a) == ResumenOf(a).montoTotal > 100000

\* the applicant is disqualified at the bureau
Disqualified(a) == ResumenOf(a).situacion5 > 0 \/ a.bcra.details.bcraData.inhabilitado

\* C18: when neither the bank cap nor a bureau cap is triggered,
\* calculateMaxAmount returns min(base, employment cap): base 200,000 from
\* sueldoNeto 1,000,000, 150,000 from 800,000, 100,000 from 500,000 and 0
\* below; cap 200,000 for publico and jubilado, 150,000 for privado.
C18_BaseAndEmploymentCap ==
    (/\ call.fn = "calculateMaxAmount"
     /\ call.arg.cliente.tipoEmpleado \in EmploymentCategories
     /\ ~BankCapTriggered(call.arg)
     /\ ~PctCapTriggered(call.arg) /\ ~MontoCapTriggered(call.arg)
     /\ ~Disqualified(call.arg)) =>
        call.out = Min(IncomeBase(call.arg.cliente.sueldoNeto),
                       EmploymentCap(call.arg.cliente.tipoEmpleado))

\* C19: calculateMaxAmount returns an amount >= 0 that exceeds neither the
\* base of the income bracket nor a triggered cap (employment; 150,000 for a
\* bank in situacion 3; 100,000 for the bureau caps); for sueldoNeto 900,000,
\* publico, a bank in situacion 1 and no problematic entity it returns 150,000.
C19_AmountWithinCaps ==
    call.fn = "calculateMaxAmount" =>
        LET a == call.arg
        IN  /\ call.out >= 0
            /\ call.out <= IncomeBase(a.cliente.sueldoNeto)
            /\ a.cliente.tipoEmpleado \in EmploymentCategories
                 => call.out <= EmploymentCap(a.cliente.tipoEmpleado)
            /\ BankCapTriggered(a) => call.out <= 150000
            /\ (PctCapTriggered(a) \/ MontoCapTriggered(a)) => call.out <= 100000
            /\ (/\ a.cliente.sueldoNeto = 900000 /\ a.cliente.tipoEmpleado = "publico"
                /\ a.banco.details.banco.situacion = 1
                /\ ResumenOf(a).situacion3 + ResumenOf(a).situacion4
                     + ResumenOf(a).situacion5 = 0
                /\ ~MontoCapTriggered(a) /\ ~Disqualified(a))
                 => call.out = 150000

\* C20: calculateMaxAmount returns at most 100,000 when more than 20% of the
\* entities are problematic, and at most 100,000 when montoTotal is above
\* 100,000, each whatever the other and whatever the income.
C20_BureauCaps ==
    call.fn = "calculateMaxAmount" =>
        /\ PctCapTriggered(call.arg) => call.out <= 100000
        /\ MontoCapTriggered(call.arg) => call.out <= 100000

-----------------------------------------------------------------------------
(* Properties of the outcome of an evaluation (Spec) *)

\* the bank of the applicant is in situacion 1 and has no restrictions
BancoSinRiesgo(c) ==
    \E i \in 1..Len(TablaBancos) :
        /\ TablaBancos[i].id = c.bancoPagador
        /\ TablaBancos[i].situacion = 1
        /\ ~TablaBancos[i].restricciones

\* exactly 10% of the entities of the summary are in situacion 3, 4 or 5
DiezPorCiento(resumen) ==
    /\ resumen.totalEntidades > 0
    /\ 100 * (resumen.situacion3 + resumen.situacion4 + resumen.situacion5)
         = 10 * resumen.totalEntidades

\* C21: an applicant with sueldoNeto 1,100,000, publico, without an active
\* credit in the registry, whose bureau summary has 10% problematic entities
\* and whose bank is in situacion 1 without restrictions, is aprobado with
\* montoMaximo 200,000.
C21_ScenarioApproved ==
    (/\ Done
     /\ cliente.sueldoNeto = 1100000 /\ cliente.tipoEmpleado = "publico"
     /\ ~ActiveDebt(cliente.dni)
     /\ HasBcraData(bcraResult)
     /\ DiezPorCiento(bcraResult.details.bcraData.resumen)
     /\ BancoSinRiesgo(cliente)) =>
        /\ result.resultado = "aprobado"
        /\ result.montoMaximo = 200000

\* the stage entries of the audit trail of an outcome
StageEntries(r) == DOMAIN r.detalles \ {"montoCalculado"}

\* a stage was reached: the stage before it passed
ProtecapReached == IsSet(protecapResult)

BcraReached == IsSet(protecapResult) /\ protecapResult.success

BancoReached == IsSet(bcraResult) /\ bcraResult.success

\* C22: the detalles of every outcome hold a result for each of the four
\* stages (income, delinquency, bureau, bank), and the entry of a stage that
\* was not reached is the "No evaluado" result.
C22_FourStageTrail ==
    Done =>
        /\ Cardinality(StageEntries(result)) = 4
        /\ ~ProtecapReached => result.detalles.protecap = NoEvaluado
        /\ ~BcraReached => result.detalles.bcra = NoEvaluado
        /\ ~BancoReached => result.detalles.banco = NoEvaluado

\* C23: every stage entry of the detalles of every outcome has a details
\* property, the "No evaluado" and "Error tecnico" entries included.
C23_DetailsPresent ==
    Done => \A k \in StageEntries(result) : Has(result.detalles[k], "details")

\* C24: an outcome has montoMaximo exactly when it is aprobado, and
\* motivoRechazo exactly when it is rechazado or pendiente.
C24_AmountAndReason ==
    Done =>
        /\ Has(result, "montoMaximo") <=> result.resultado = "aprobado"
        /\ Has(result, "motivoRechazo") <=> result.resultado \in {"rechazado", "pendiente"}

C24_Witness ==
    /\ Done
    /\ result.resultado = "rechazado"
    /\ Has(result.detalles, "montoCalculado")
    /\ ~Has(result, "montoMaximo") /\ Has(result, "motivoRechazo")

\* C25: the outcome is pendiente only when the bureau stage failed with
\* requiresManualReview; when the bank stage throws, the outcome is
\* rechazado, never pendiente.
C25_PendingOnlyFromBureau ==
    /\ (Done /\ result.resultado = "pendiente") =>
          /\ IsSet(bcraResult) /\ ~bcraResult.success
          /\ RequiresManualReview(bcraResult)
    /\ (pc \in {"done", "threw"} /\ BancoReached /\ validateBancoThrows(cliente)) =>
          /\ Done
          /\ result.resultado = "rechazado"

\* the bureau stage has started: the identifier was derived, the bureau was
\* queried or the stage has returned
BureauStarted == cuit # <<>> \/ requests > 0 \/ IsSet(bcraResult)

\* the amount was calculated
AmountCalculated == IsSet(result) /\ Has(result.detalles, "montoCalculado")

\* a stage starts only after the stage before it has run and passed
StagesInOrder ==
    /\ IsSet(protecapResult) => (IsSet(sueldoValidation) /\ sueldoValidation.success)
    /\ BureauStarted => (IsSet(protecapResult) /\ protecapResult.success)
    /\ requests > 0 => cuit # <<>>
    /\ IsSet(bancoResult) => (IsSet(bcraResult) /\ bcraResult.success)
    /\ AmountCalculated => (IsSet(bancoResult) /\ bancoResult.success)

\* a stage that has returned does not run again
StagesOnce ==
    /\ IsSet(sueldoValidation) => sueldoValidation' = sueldoValidation
    /\ IsSet(protecapResult) => protecapResult' = protecapResult
    /\ IsSet(bcraResult) => (bcraResult' = bcraResult /\ requests' = requests /\ cuit' = cuit)
    /\ IsSet(bancoResult) => bancoResult' = bancoResult
    /\ IsSet(result) => result' = result

\* C28: in every evaluation the stages start in the order income,
\* delinquency, bureau (identifier derivation, then the query), bank, amount
\* calculation, each at most once, and no stage (no bureau request in
\* particular) starts after an earlier stage has failed.
C28_StageOrder == []StagesInOrder /\ [][StagesOnce]_vars

\* an attempt is in progress
AttemptInProgress == pc \in {"fetch", "body"}

\* a request is issued in this step
AttemptStarts == requests' = requests + 1

\* at most one request in flight, exactly while an attempt is in progress,
\* and no more than three attempts
OneRequestAtATime ==
    /\ inFlight \in {0, 1}
    /\ inFlight = 1 <=> AttemptInProgress
    /\ requests = attempt
    /\ requests <= 3
    /\ Len(waits) = (IF requests = 0 THEN 0
                     ELSE IF AttemptInProgress \/ pc # "backoff" THEN requests - 1
                     ELSE requests)

\* a request is issued only by validateBCRA (the first) or after the failure
\* of the attempt before and the wait that followed it, and never after an answer
AttemptsInSequence ==
    /\ requests' \in {requests, requests + 1}
    /\ AttemptStarts =>
          /\ inFlight = 0
          /\ inFlight' = 1
          /\ ~IsSet(bcraResult)
          /\ requests > 0 => (pc = "backoff" /\ lastError # "" /\ Len(waits) = requests)

\* C29: during a live consultarDeudas at most one HTTP request is in flight
\* at any time; a new attempt starts only after the previous attempt has
\* failed and its backoff wait has elapsed; there are never more than 3
\* attempts; no attempt is made after one has succeeded.
C29_SingleInFlight == []OneRequestAtATime /\ [][AttemptsInSequence]_vars

\* the third attempt is in progress after two failures and two waits
C29_Witness == requests = 3 /\ inFlight = 1 /\ Len(waits) = 2

\* once the caller has cancelled, no request is issued and no wait is begun
NoRetryAfterCancel == cancelled => (requests' = requests /\ waits' = waits)

\* a cancelled query ends with the outcome Cancelled, which is not Timeout
CancelledOutcome ==
    (cancelled /\ IsSet(bcraResult)) =>
        (consultaError = "CANCELLED" /\ ~HasBcraData(bcraResult))

\* C26: a cancellation or deadline supplied by the caller aborts the bureau
\* attempt that is in progress and skips all remaining retries and backoff
\* waits; the query then ends with a Cancelled outcome distinct from Timeout.
C26_CallerCancellation == []CancelledOutcome /\ [][NoRetryAfterCancel]_vars

\* the attempt has not ended although TIMEOUT_MS have passed since it began
AttemptPastDeadline == AttemptInProgress /\ deadlinePassed

\* an attempt ends in this step
AttemptEnds == inFlight' = inFlight - 1

\* an attempt ends either with the parsed response handed to validateBCRA and
\* no error recorded, or with one classified error
AttemptOutcome ==
    AttemptEnds =>
        \/ /\ lastError' = lastError
           /\ consultaError' = ""
           /\ HasBcraData(bcraResult')
        \/ /\ lastError' # ""
           /\ \/ lastError' = "TIMEOUT"
              \/ IsHttpError(lastError')
              \/ lastError' \in {"UNKNOWN_ERROR", "Failed to fetch"}

\* C30: every live attempt ends in exactly one of a fully received and parsed
\* response, Timeout (iff the per-attempt deadline aborted it), HttpError
\* with the status (iff the status is not 2xx) or Unknown; an attempt not
\* completed when its deadline expires is aborted and classified Timeout, so
\* no attempt runs past its deadline.
C30_AttemptOutcomes == [](~AttemptPastDeadline) /\ [][AttemptOutcome]_vars

\* validateBCRA run without interruption for the identifier dni, given what
\* the bureau query hears from its environment
validateBCRAAlone(dni, heard) ==
    IF ~validateCuit(dni) /\ dniToCuitThrows(dni)
    THEN validateBCRAUnexpected
    ELSE LET c == IF validateCuit(dni) THEN dni ELSE dniToCuit(dni)
         IN  IF heard.kind = "mock"
             THEN IF consultarDeudasNoToken # ""
                  THEN validateBCRACatch(consultarDeudasNoToken, c, heard.draw)
                  ELSE validateBCRAResponse(generateMockResponse(c, heard.draw))
             ELSE IF heard.kind = "answer"
             THEN validateBCRAResponse(processResponse(heard.body, c))
             ELSE validateBCRACatch(RetriesExhaustedError(makeRequestError(heard.failure)),
                                    c, CHOOSE d \in MockDraws_A : d.favorable)

\* evaluateCliente run alone from its first statement to its return (or
\* throw) for the applicant c, the bureau query hearing heard and the random
\* account check drawing blocked
evaluateClienteAlone(c, heard, blocked) ==
    LET income == validateSueldoMinimo(c.sueldoNeto)
        protecap == validateProtecap(c.dni)
        bureau == validateBCRAAlone(c.dni, heard)
        banco == validateBanco(c, blocked)
    IN  IF vs = "lib" /\ ~income.success
        THEN [returned |-> Rechazado(income.message, NoEvaluado, NoEvaluado, NoEvaluado)]
        ELSE IF ~protecap.success
        THEN [returned |-> Rechazado(protecap.message, protecap, NoEvaluado, NoEvaluado)]
        ELSE IF ~bureau.success
        THEN [returned |-> BCRAFailureResult(protecap, bureau)]
        ELSE IF validateBancoThrows(c)
        THEN IF vs = "lib" THEN [threw |-> "TypeError"]
             ELSE [returned |-> PendienteErrorTecnico]
        ELSE IF ~banco.success
        THEN [returned |-> Rechazado(banco.message, protecap, bureau, banco)]
        ELSE [returned |-> FinalResult(calculateMaxAmount(c, bureau, banco),
                                       protecap, bureau, banco)]

\* how call e ended
OutcomeOf(e) ==
    IF evals[e].pc = "threw" THEN [threw |-> evals[e].thrown]
    ELSE [returned |-> evals[e].result]

Ended(e) == evals[e].pc \in {"done", "threw"}

\* C27: when two evaluateCliente calls for different applicants interleave at
\* their suspension points, each returns the outcome it would return when
\* run alone (the bank table and the delinquency registry, which no
\* evaluation writes, are the constants both read).
C27_InterleavedIndependent ==
    \A e \in Evaluations :
        Ended(e) =>
            OutcomeOf(e) = evaluateClienteAlone(evals[e].cliente, evals[e].heard,
                                                evals[e].blocked)

\* both calls have ended, the second began while the first was awaiting the
\* bureau or the bank, and they ended differently
C27_Witness ==
    /\ Ended(1) /\ Ended(2)
    /\ evals[2].overlapped
    /\ evals[1].attempt >= 2
    /\ evals[1].cliente.dni # evals[2].cliente.dni
    /\ OutcomeOf(1) # OutcomeOf(2)
    /\ IsSet(evals[1].result) /\ evals[1].result.resultado = "aprobado"

\* the steps that timers and the network bring about: the timers of
\* validateProtecap, of the backoff and of validateBanco fire, and a request
\* is answered, fails or is aborted by its timer
Progress ==
    \/ ProtecapDone
    \/ validateBCRA
    \/ ResponseOk
    \/ \E apiResponse \in ApiResponses : FetchResolves(apiResponse)
    \/ \E f \in FetchFailures : FetchFails(f)
    \/ BackoffElapsed
    \/ BancoDone

\* the evaluation pipeline with fair timers and a fair network
SpecFair == Spec /\ WF_vars(Progress)

\* evaluateCliente has been called
Started == pc # "idle"

\* evaluateCliente has resolved with exactly one of the three outcomes
Terminal == Done /\ IsSet(result) /\ result.resultado \in Resultados

\* a resolved evaluation keeps its outcome
TerminalStays == Terminal => (pc' = pc /\ result' = result)

\* C31: with fair timers and a fair network (every request is eventually
\* answered, fails or is timed out), every started evaluateCliente
\* eventually reaches exactly one of aprobado, rechazado, pendiente and
\* then stays there.
C31_EventuallyTerminal == (Started ~> Terminal) /\ [][TerminalStays]_vars

\* an identifier of 11 digits whose last digit is the check digit of the
\* first ten
IsTaxId(c) == Len(c) = 11 /\ AllDigits(c) /\ validateCuitChecksum(c)

\* C32: the identifier the bureau stage passes to the bureau client is always
\* an 11-digit tax identifier with a valid check digit; a person identifier
\* of 7 or 8 digits is converted with dniToCuit before the query and never
\* sent unconverted.
C32_QueryWithTaxId ==
    cuit # <<>> =>
        /\ IsTaxId(cuit)
        /\ IsPersonId(cliente.dni) => cuit = dniToCuit_A(cliente.dni)

\* the amount of a debt record (0 when it has none)
MontoOf(deuda) == IF Has(deuda, "monto") THEN deuda.monto ELSE 0

\* C33: processResponse reduces a list of debt records to a summary where
\* each tier count (1..5) is the number of records with that tier, the
\* entity total is the number of records, the outstanding amount is the sum
\* of the record amounts and inhabilitado is true iff the tier-5 count is
\* > 0; a record with a tier outside 1..5 increments no tier count and does
\* not abort processing.
C33_ProcessResponseReduces ==
    call.fn = "processResponse" =>
        LET deudas == call.arg.deudas
            resumen == call.out.resumen
        IN  /\ resumen.situacion1 = CountSit(deudas, 1)
            /\ resumen.situacion2 = CountSit(deudas, 2)
            /\ resumen.situacion3 = CountSit(deudas, 3)
            /\ resumen.situacion4 = CountSit(deudas, 4)
            /\ resumen.situacion5 = CountSit(deudas, 5)
            /\ resumen.totalEntidades = Len(deudas)
            /\ resumen.montoTotal = SumSeq([i \in 1..Len(deudas) |-> MontoOf(deudas[i])])
            /\ call.out.inhabilitado <=> CountSit(deudas, 5) > 0
            /\ call.out.deudas = deudas

\* a list with a record of tier 5 and one of a tier outside 1..5 was reduced
C33_Witness ==
    /\ call.fn = "processResponse"
    /\ Len(call.arg.deudas) = 2
    /\ CountSit(call.arg.deudas, 5) = 1
    /\ CountSit(call.arg.deudas, 7) = 1
    /\ call.out.inhabilitado
    /\ call.out.resumen.totalEntidades = 2

\* the summary validateBCRA received, from a live answer or from the simulator
BureauSummary == bcraResult.details.bcraData

\* C34: in every summary handed to the bureau stage, whether produced from a
\* live response or by the simulator, inhabilitado is true if and only if the
\* tier-5 count is greater than 0.
C34_DisqualifiedIffTier5 ==
    HasBcraData(bcraResult) =>
        (BureauSummary.inhabilitado <=> BureauSummary.resumen.situacion5 > 0)

\* the tier counts of a summary, as a function of the tier
TierCount(resumen, k) ==
    IF k = 1 THEN resumen.situacion1 ELSE IF k = 2 THEN resumen.situacion2
    ELSE IF k = 3 THEN resumen.situacion3 ELSE IF k = 4 THEN resumen.situacion4
    ELSE resumen.situacion5

\* C36: in every summary returned by the bureau client (live or simulated),
\* each tier count equals the number of records with that tier in the
\* summary's own debt list and the entity total equals the length of that
\* list, so when all tiers are in 1..5 the five tier counts sum to the
\* entity total.
C36_CountsMatchRecords ==
    HasBcraData(bcraResult) =>
        LET deudas == BureauSummary.deudas
            resumen == BureauSummary.resumen
        IN  /\ \A k \in 1..5 : TierCount(resumen, k) = CountSit(deudas, k)
            /\ resumen.totalEntidades = Len(deudas)
            /\ (\A i \in 1..Len(deudas) : deudas[i].situacion \in 1..5) =>
                   resumen.situacion1 + resumen.situacion2 + resumen.situacion3
                   + resumen.situacion4 + resumen.situacion5 = resumen.totalEntidades

\* C35: the bank stage is a pure function of its inputs: for the same
\* applicant and the same bank table, any two invocations of validateBanco
\* return the same verdict (same success flag and message).
C35_BankStagePure ==
    (call.fn = "validateBanco" /\ Has(call, "again")) =>
        /\ call.again.success = call.out.success
        /\ call.again.message = call.out.message

\* the audit trail of an outcome, in the order of the stages
Trail(r) == <<r.detalles.protecap, r.detalles.bcra, r.detalles.banco>>

EntryPassed(x) == x.success
EntryNotEvaluated(x) == x = NoEvaluado
EntryFailed(x) == ~x.success /\ x # NoEvaluado

\* passed entries, then at most one failed entry, then only "No evaluado"
TrailShape(t) ==
    \E n \in 0..Len(t), f \in {0, 1} :
        /\ n + f <= Len(t)
        /\ \A i \in 1..n : EntryPassed(t[i])
        /\ f = 1 => EntryFailed(t[n + 1])
        /\ \A i \in (n + f + 1)..Len(t) : EntryNotEvaluated(t[i])

AllPassed(t) == \A i \in 1..Len(t) : EntryPassed(t[i])

\* evaluateCliente returned from its try block, not from its catch
NormalReturn == Done /\ result # PendienteErrorTecnico

History == getEvaluations

\* the history after the step
HistoryAfter == IF storage' = NoItem THEN <<>> ELSE storage'.text

\* newest first: every record was saved after the records behind it
NewestFirst(h) == \A i \in 1..Len(h), j \in 1..Len(h) : i < j => h[i].id > h[j].id

\* what a step of saveEvaluation, of clearHistory and of a read does
HistoryStep ==
    /\ (call' # call /\ call'.fn = "saveEvaluation") =>
          /\ Len(HistoryAfter) = Min(Len(History) + 1, 100)
          /\ HistoryAfter[1] = call'.out
          /\ \A k \in 1..Len(History) : HistoryAfter[1] # History[k]
          /\ \A i \in 2..Len(HistoryAfter) : HistoryAfter[i] = History[i - 1]
    /\ call'.fn = "clearHistory" => HistoryAfter = <<>>
    /\ call'.fn = "getRecentEvaluations" =>
          /\ storage' = storage
          /\ call'.out = SubSeq(History, 1, Min(Len(History), call'.arg))

\* C38: after any sequence of saveEvaluation, clearHistory and read
\* operations the stored history holds at most 100 records ordered newest
\* first: each saveEvaluation puts the new record at index 0, keeps the
\* relative order of the older records and drops only the oldest records
\* beyond 100; clearHistory leaves an empty history.
C38_HistoryBounded ==
    [](Len(History) <= 100 /\ NewestFirst(History)) /\ [][HistoryStep]_vars

\* the history is full and its oldest records have been dropped
C38_Witness ==
    /\ Len(History) = 100
    /\ History[100].id = 3
    /\ call.fn = "saveEvaluation"
    /\ History[1] = call.out

\* the logins that end in this step
LoginsEnding == pending \ pending'

\* the session becomes authenticated, or changes its user, in this step
Authenticates == user' # NoUser /\ user' # user

\* C39: once logout has been called the session stays unauthenticated (user
\* is null) until a login is requested after that logout: a login that was
\* started before the logout and completes after it does not re-authenticate
\* the session; user is non-null only for a registered email with the
\* correct password.
C39_LogoutSticks ==
    [][Authenticates =>
          \E req \in LoginsEnding :
              /\ ~req.stale
              /\ req.password = "123456"
              /\ FindComercializador(req.email) = {user'}]_vars

====
